---------------------------- MODULE Spec2Model ----------------------------
(***************************************************************************)
(* A model of frago: the process supervisor (internal/runner), the         *)
(* Caddyfile provisioner (internal/caddy) and the port allocator           *)
(* (internal/port), together with the HTTP run/stop handlers that drive    *)
(* them.                                                                   *)
(*                                                                         *)
(* File contents are TLA+ strings; the Go string functions the provisioner *)
(* uses are written out below on them, character by character.             *)
(***************************************************************************)
EXTENDS Integers, Sequences, FiniteSets, TLC

VARIABLES
    processes,  \* Manager.processes: project path -> Process, or NoProc
    logs,       \* Manager.logs: project path -> LogBuffer, or NoBuf
    exitInfo,   \* Manager.exitInfo: project path -> ExitInfo, or NoExit
    stopReq,    \* Manager.stopReq: project path -> BOOLEAN
    cmd,        \* the operating system's view of each spawned subprocess
    watcher,    \* per subprocess: where its monitor goroutine stands
    nextPid,    \* number of the next subprocess to be spawned
    file,       \* project path -> content of <path>/Caddyfile, or Absent
    bak,        \* project path -> content of <path>/Caddyfile.bak, or Absent
    osBusy,     \* ports some foreign listener holds
    binds,      \* how each of the four binds of IsPortFree answers on any other port
    pc,         \* per caller: where it stands in its current call
    arg,        \* per caller: the locals of its current call
    ret,        \* what the call that returned last returned
    ens,        \* the last stand-alone EnsureCaddyfile call and its outcome
    origin,     \* per subprocess: the Caddyfile before it was provisioned
    requests,   \* calls the callers have begun
    probe,      \* the last stand-alone call of the port allocator and its outcome
    fed,        \* the chunks written to the LogBuffer on its own, in order
    mu,         \* Manager.mu: the caller that holds the lock, or ""
    tail        \* the last Tail / TailLogs call and what it returned

vars == <<processes, logs, exitInfo, stopReq, cmd, watcher, nextPid,
          file, bak, osBusy, binds, pc, arg, ret, ens, origin, requests, probe, fed, mu, tail,
          mu, tail>>

-----------------------------------------------------------------------------
(* Bounds of the model.                                                    *)

\* Subprocesses spawned in one behaviour.
MaxProcs == 2
\* Calls the callers begin in one behaviour.
MaxRequests == 3

Dirs == {"d1", "d2"}
Threads == {"t1", "t2"}
Pids == 1..MaxProcs

-----------------------------------------------------------------------------
(* Go's strings and strconv functions, as far as the provisioner uses them. *)

Char(s, i) == SubSeq(s, i, i)

\* unicode.IsSpace on the characters that occur in the files of the model.
IsSpace(c) == c \in {" ", "\t", "\n", "\r", "\f"}

IsDigit(c) == c \in {"0", "1", "2", "3", "4", "5", "6", "7", "8", "9"}

DigitVal(c) ==
    CASE c = "0" -> 0 [] c = "1" -> 1 [] c = "2" -> 2 [] c = "3" -> 3
      [] c = "4" -> 4 [] c = "5" -> 5 [] c = "6" -> 6 [] c = "7" -> 7
      [] c = "8" -> 8 [] c = "9" -> 9

DigitChar(n) ==
    CASE n = 0 -> "0" [] n = 1 -> "1" [] n = 2 -> "2" [] n = 3 -> "3"
      [] n = 4 -> "4" [] n = 5 -> "5" [] n = 6 -> "6" [] n = 7 -> "7"
      [] n = 8 -> "8" [] n = 9 -> "9"

HasPrefix(s, p) == Len(s) >= Len(p) /\ SubSeq(s, 1, Len(p)) = p

HasSuffix(s, p) == Len(s) >= Len(p) /\ SubSeq(s, Len(s) - Len(p) + 1, Len(s)) = p

\* strings.Index: the position (from 1) of the first occurrence of sub, 0 if none.
Index(s, sub) ==
    LET hits == {i \in 1..(Len(s) - Len(sub) + 1) : SubSeq(s, i, i + Len(sub) - 1) = sub}
    IN  IF hits = {} THEN 0 ELSE CHOOSE i \in hits : \A j \in hits : i <= j

\* strings.LastIndex: the position (from 1) of the last occurrence of sub, 0 if none.
LastIndex(s, sub) ==
    LET hits == {i \in 1..(Len(s) - Len(sub) + 1) : SubSeq(s, i, i + Len(sub) - 1) = sub}
    IN  IF hits = {} THEN 0 ELSE CHOOSE i \in hits : \A j \in hits : i >= j

\* strings.TrimLeft(s, cutset) for a cutset given as a set of characters.
TrimLeft(s, cutset) ==
    LET keep == {i \in 1..Len(s) : Char(s, i) \notin cutset}
    IN  IF keep = {} THEN ""
        ELSE SubSeq(s, CHOOSE i \in keep : \A j \in keep : i <= j, Len(s))

\* strings.TrimSpace
TrimSpace(s) ==
    LET keep == {i \in 1..Len(s) : ~IsSpace(Char(s, i))}
    IN  IF keep = {} THEN ""
        ELSE SubSeq(s, CHOOSE i \in keep : \A j \in keep : i <= j,
                       CHOOSE i \in keep : \A j \in keep : i >= j)

\* strings.Split(s, sep) for a one-character sep: always at least one part.
RECURSIVE Split(_, _)
Split(s, sep) ==
    LET i == Index(s, sep)
    IN  IF i = 0 THEN <<s>>
        ELSE <<SubSeq(s, 1, i - 1)>> \o Split(SubSeq(s, i + 1, Len(s)), sep)

\* strings.Join
RECURSIVE Join(_, _)
Join(parts, sep) ==
    IF Len(parts) = 0 THEN ""
    ELSE IF Len(parts) = 1 THEN parts[1]
    ELSE parts[1] \o sep \o Join(Tail(parts), sep)

\* The end of the run of non-space characters that starts s: the position of the
\* first space character of s, Len(s) + 1 if it has none.
FieldEnd(s) ==
    LET sp == {i \in 1..Len(s) : IsSpace(Char(s, i))}
    IN  IF sp = {} THEN Len(s) + 1 ELSE CHOOSE i \in sp : \A j \in sp : i <= j

\* strings.Fields: the maximal runs of non-space characters.  FieldsOf takes the
\* string without the space around it and the end of its first field.
RECURSIVE Fields(_)
FieldsOf(t, cut) ==
    IF t = "" THEN <<>>
    ELSE <<SubSeq(t, 1, cut - 1)>> \o Fields(SubSeq(t, cut, Len(t)))

Fields(s) == FieldsOf(TrimSpace(s), FieldEnd(TrimSpace(s)))

RECURSIVE DigitsValue(_)
DigitsValue(s) ==
    IF Len(s) = 0 THEN 0
    ELSE 10 * DigitsValue(SubSeq(s, 1, Len(s) - 1)) + DigitVal(Char(s, Len(s)))

\* strconv.Atoi on a string without a sign: one or more decimal digits.
AtoiUnsigned(body) ==
    IF Len(body) = 0 \/ \E i \in 1..Len(body) : ~IsDigit(Char(body, i))
    THEN [ok |-> FALSE, n |-> 0]
    ELSE [ok |-> TRUE, n |-> DigitsValue(body)]

AtoiNegated(r) == [ok |-> r.ok, n |-> 0 - r.n]

\* strconv.Atoi: an optional sign, then one or more decimal digits.
Atoi(s) ==
    IF Len(s) > 0 /\ Char(s, 1) = "-" THEN AtoiNegated(AtoiUnsigned(SubSeq(s, 2, Len(s))))
    ELSE IF Len(s) > 0 /\ Char(s, 1) = "+" THEN AtoiUnsigned(SubSeq(s, 2, Len(s)))
    ELSE AtoiUnsigned(s)

\* fmt.Sprintf("%d", n)
RECURSIVE Itoa(_)
Itoa(n) ==
    IF n < 0 THEN "-" \o Itoa(0 - n)
    ELSE IF n < 10 THEN DigitChar(n)
    ELSE Itoa(n \div 10) \o DigitChar(n % 10)

-----------------------------------------------------------------------------
(* internal/port                                                           *)

\* The four binds IsPortFree tries, in this order.
Checks ==
    << [network |-> "tcp4", addr |-> "0.0.0.0", skipOnNoFamily |-> FALSE],
       [network |-> "tcp4", addr |-> "127.0.0.1", skipOnNoFamily |-> FALSE],
       [network |-> "tcp6", addr |-> "[::]", skipOnNoFamily |-> TRUE],
       [network |-> "tcp6", addr |-> "[::1]", skipOnNoFamily |-> TRUE] >>

\* What net.Listen answers: "ok", or the error it fails with.
BindOutcomes ==
    { "ok", "EADDRINUSE", "EACCES", "EAFNOSUPPORT", "EPROTONOSUPPORT", "EADDRNOTAVAIL" }

\* Every bind works on a port nobody listens on.
AllBind == [k \in 1..4 |-> "ok"]

ErrRangeExhausted == "no free port in range"

NoProbe == [op |-> "", port |-> 0, start |-> 0, end |-> 0, free |-> FALSE, err |-> ""]

\* canListen on the k-th address with port p: no port outside 0..65535 can be
\* listened on, a port a foreign listener holds is in use on every address, and
\* any other port answers as binds says.
canListen(k, p) ==
    IF p < 0 \/ p > 65535 THEN "EINVAL"
    ELSE IF p \in osBusy THEN "EADDRINUSE"
    ELSE binds[k]

\* A faulty isAddrFamilyUnsupported, for comparison: every error counts.
isAnyError(err) == TRUE

isAddrFamilyUnsupported(err) == err \in {"EAFNOSUPPORT", "EPROTONOSUPPORT", "EADDRNOTAVAIL"}

\* A faulty probe, for comparison: every port is found free.
IsPortFreeAlways(p) == TRUE

\* IsPortFree: the loop returns false at the first bind that fails and is not
\* skipped, true when there is none.
IsPortFree(p) ==
    \A k \in 1..Len(Checks) :
        \/ canListen(k, p) = "ok"
        \/ Checks[k].skipOnNoFamily /\ isAddrFamilyUnsupported(canListen(k, p))

\* A faulty scan, for comparison with FindFreePort: the highest free port.
FindFreePortLast(start, end) ==
    LET free == {p \in start..end : IsPortFree(p)}
    IN  IF free = {} THEN [port |-> 0, err |-> ErrRangeExhausted]
        ELSE [port |-> CHOOSE p \in free : \A q \in free : p >= q, err |-> ""]

\* FindFreePort: the ascending scan returns the first free port it meets.
FindFreePort(start, end) ==
    LET free == {p \in start..end : IsPortFree(p)}
    IN  IF free = {} THEN [port |-> 0, err |-> ErrRangeExhausted]
        ELSE [port |-> CHOOSE p \in free : \A q \in free : p <= q, err |-> ""]

-----------------------------------------------------------------------------
(* internal/caddy                                                          *)

\* A file of the project directory: missing, or present with its bytes.
Absent == [exists |-> FALSE, data |-> ""]
Present(s) == [exists |-> TRUE, data |-> s]

defaultStartPort == 8080
defaultEndPort == 9000

NoConfig == [Path |-> "", Port |-> 0, IsNew |-> FALSE, BackupPath |-> ""]

ErrDesiredPortUnavailable == "desired port unavailable"
ErrInvalidPort == "port is invalid; must be between 1 and 65535"
ErrNoFreePort == "no free port in range"
ErrNoPortDefinition == "could not find port definition in existing Caddyfile"
ErrCouldNotUpdate == "could not update port in existing Caddyfile"
ErrIO == "i/o error"

\* What parseAddressPort returns for a field that is no address with a port.
NoAddress == [prefix |-> "", port |-> 0, ok |-> FALSE]

\* The return of parseAddressPort once the port string has gone through Atoi.
AddressOf(prefix, r) ==
    IF r.ok THEN [prefix |-> prefix, port |-> r.n, ok |-> TRUE] ELSE NoAddress

\* The branch for "[host]:port"; idx is LastIndex(addr, "]:").
BracketAddress(addr, idx) ==
    IF idx = 0 THEN NoAddress
    ELSE AddressOf(SubSeq(addr, 1, idx), Atoi(SubSeq(addr, idx + 2, Len(addr))))

\* The branch for "host:port"; idx is LastIndex(addr, ":").
HostAddress(addr, idx) ==
    IF idx = 0 THEN NoAddress
    ELSE IF SubSeq(addr, 1, idx - 1) = "" THEN NoAddress
    ELSE AddressOf(SubSeq(addr, 1, idx - 1), Atoi(SubSeq(addr, idx + 1, Len(addr))))

\* parseAddressPort after addr = strings.TrimSpace(addr).
ParseTrimmed(addr) ==
    IF addr = "" THEN NoAddress
    ELSE IF HasPrefix(addr, ":") THEN AddressOf(":", Atoi(SubSeq(addr, 2, Len(addr))))
    ELSE IF HasPrefix(addr, "[") THEN BracketAddress(addr, LastIndex(addr, "]:"))
    ELSE HostAddress(addr, LastIndex(addr, ":"))

\* A faulty parse, for comparison: a field without a colon is taken for a host
\* on port 80.
parseAddressPortLoose(a) ==
    IF Index(TrimSpace(a), ":") = 0 /\ TrimSpace(a) # ""
    THEN [prefix |-> TrimSpace(a), port |-> 80, ok |-> TRUE]
    ELSE ParseTrimmed(TrimSpace(a))

parseAddressPort(a) == ParseTrimmed(TrimSpace(a))

\* A faulty formatAddress, for comparison: the colon is written after every
\* prefix, the bare ":" included.
formatAddressColon(prefix, port) == prefix \o ":" \o Itoa(port)

formatAddress(prefix, port) ==
    IF prefix = ":" THEN ":" \o Itoa(port) ELSE prefix \o ":" \o Itoa(port)

\* A faulty scan, for comparison with findFreePort: it skips the ports that are
\* listened on but not the ports usedPorts claims.
findFreePortUnclaimed(start, end, usedPorts) ==
    LET last == IF start + Cardinality(osBusy) < end THEN start + Cardinality(osBusy) ELSE end
        pass == {p \in start..last : IsPortFree(p)}
    IN  IF pass = {} THEN [port |-> 0, err |-> ErrNoFreePort]
        ELSE [port |-> CHOOSE p \in pass : \A q \in pass : p <= q, err |-> ""]

\* A faulty scan, for comparison: it descends from the end of the range.
findFreePortDescending(start, end, usedPorts) ==
    LET pass == {p \in start..end : IsPortFree(p) /\ p \notin usedPorts}
    IN  IF pass = {} THEN [port |-> 0, err |-> ErrNoFreePort]
        ELSE [port |-> CHOOSE p \in pass : \A q \in pass : p >= q, err |-> ""]

\* The closure findFreePort of EnsureCaddyfile: the ascending scan stops at the
\* first port that is free (IsPortFree) and not in usedPorts, which is the least
\* such port.  With at most k ports taken or claimed, the scan stops within the
\* first k + 1 ports of the range, so no port beyond them is looked at.
findFreePort(start, end, usedPorts) ==
    LET k == Cardinality(osBusy) + Cardinality(usedPorts)
        last == IF start + k < end THEN start + k ELSE end
        pass == {p \in start..last : IsPortFree(p) /\ p \notin usedPorts}
    IN  IF pass = {} THEN [port |-> 0, err |-> ErrNoFreePort]
        ELSE [port |-> CHOOSE p \in pass : \A q \in pass : p <= q, err |-> ""]

\* A faulty checkDesiredPort, for comparison: usedPorts is not looked at.
checkDesiredPortOs(p, usedPorts) ==
    IF p <= 0 \/ p > 65535 THEN ErrInvalidPort
    ELSE IF ~IsPortFree(p) THEN ErrDesiredPortUnavailable
    ELSE ""

\* The closure checkDesiredPort of EnsureCaddyfile.
checkDesiredPort(p, usedPorts) ==
    IF p <= 0 \/ p > 65535 THEN ErrInvalidPort
    ELSE IF ~IsPortFree(p) THEN ErrDesiredPortUnavailable
    ELSE IF p \in usedPorts THEN ErrDesiredPortUnavailable
    ELSE ""

\* The inner loop over the fields of a declaration: r is the parse of the field
\* at hand, rest the outcome of the loop on the fields after it.
FirstOf(r, rest) == IF r.ok THEN r ELSE rest

\* The first field of a declaration that parses as an address with a port.
RECURSIVE FirstAddress(_, _)
FirstAddress(fields, k) ==
    IF k > Len(fields) THEN NoAddress
    ELSE FirstOf(parseAddressPort(fields[k]), FirstAddress(fields, k + 1))

NotFound ==
    [foundAddress |-> FALSE, targetLine |-> 0, linePrefix |-> "", lineSuffix |-> "",
     lineFields |-> <<>>, currentPort |-> 0]

\* beforeBrace of the switch: what stands before the brace of the trimmed line,
\* or the whole of it when the brace is on the next line (braceIdx = 0).
BeforeBrace(trimmed, braceIdx) ==
    IF braceIdx > 0 THEN TrimSpace(SubSeq(trimmed, 1, braceIdx - 1)) ELSE trimmed

\* lineSuffix of the switch.
LineSuffix(trimmed, braceIdx) ==
    IF braceIdx > 0 THEN TrimSpace(SubSeq(trimmed, braceIdx, Len(trimmed))) ELSE ""

\* The three continue statements of the loop body: a blank or comment line, a
\* line with no brace on it or alone on the next, a line with nothing before
\* its brace.
SkipLine(lines, i, trimmed, braceIdx) ==
    \/ trimmed = "" \/ HasPrefix(trimmed, "#") \/ HasPrefix(trimmed, "//")
    \/ braceIdx = 0 /\ ~(i + 1 <= Len(lines) /\ TrimSpace(lines[i + 1]) = "{")
    \/ BeforeBrace(trimmed, braceIdx) = ""

\* What the loop leaves behind when it breaks at line i.
FoundAt(i, line, lineSuffix, fields, first) ==
    [foundAddress |-> TRUE, targetLine |-> i,
     linePrefix |-> SubSeq(line, 1, Len(line) - Len(TrimLeft(line, {" ", "\t"}))),
     lineSuffix |-> lineSuffix, lineFields |-> fields, currentPort |-> first.port]

\* The loop over the lines of an existing Caddyfile, from line i (counted from 1).
\* ScanLine is the loop body on line i, given the trimmed line and the position
\* of its brace; ScanFields, the end of the body, given the fields before the
\* brace and the first address among them.
RECURSIVE FindAddressLine(_, _)
ScanFields(lines, i, lineSuffix, fields, first) ==
    IF first.ok THEN FoundAt(i, lines[i], lineSuffix, fields, first)
    ELSE FindAddressLine(lines, i + 1)

ScanLine(lines, i, trimmed, braceIdx) ==
    IF SkipLine(lines, i, trimmed, braceIdx) THEN FindAddressLine(lines, i + 1)
    ELSE ScanFields(lines, i, LineSuffix(trimmed, braceIdx),
                    Fields(BeforeBrace(trimmed, braceIdx)),
                    FirstAddress(Fields(BeforeBrace(trimmed, braceIdx)), 1))

FindAddressLine(lines, i) ==
    IF i > Len(lines) THEN NotFound
    ELSE ScanLine(lines, i, TrimSpace(lines[i]), Index(TrimSpace(lines[i]), "{"))

\* The test of the rewrite loops: the parsed field r carries the current port.
CarriesPort(r, currentPort) == r.ok /\ r.port = currentPort

\* The body of the rewrite loops on one field, r its parse.
ReplaceField(field, r, currentPort, newPort) ==
    IF CarriesPort(r, currentPort) THEN formatAddress(r.prefix, newPort) ELSE field

\* The two rewrite loops: every field that carries the current port gets newPort.
ReplacePort(lineFields, currentPort, newPort) ==
    [k \in 1..Len(lineFields) |->
        ReplaceField(lineFields[k], parseAddressPort(lineFields[k]), currentPort, newPort)]

PortUpdated(lineFields, currentPort) ==
    \E k \in 1..Len(lineFields) : CarriesPort(parseAddressPort(lineFields[k]), currentPort)

\* newLine: the prefix, the fields joined by one space, and the suffix after one
\* more space if there is one.
NewLine(found, newPort) ==
    found.linePrefix
        \o Join(ReplacePort(found.lineFields, found.currentPort, newPort), " ")
        \o (IF found.lineSuffix # "" THEN " " \o found.lineSuffix ELSE "")

\* The new content: the target line rebuilt from its fields, the others kept.
RewriteContent(lines, found, newPort) ==
    Join([lines EXCEPT ![found.targetLine] = NewLine(found, newPort)], "\n")

\* A faulty content for a new file, for comparison: the address lacks its colon.
CreatedContentBare(p) == Itoa(p) \o " {\n\troot * .\n\tphp_server\n\tfile_server\n}"

CreatedContent(p) == ":" \o Itoa(p) \o " {\n\troot * .\n\tphp_server\n\tfile_server\n}"

BackupName == "Caddyfile.bak"

Failed(e, f, b) == [err |-> e, cfg |-> NoConfig, file |-> f, bak |-> b]

\* A faulty overwrite, for comparison with BackupAndWrite: the error of the
\* backup write is dropped and the file overwritten all the same.
WriteIgnoringBackup(dir, f, b, newContent, newPort, io) ==
    IF io = "write" THEN Failed(ErrIO, f, Present(f.data))
    ELSE [err |-> "",
          cfg |-> [Path |-> dir, Port |-> newPort, IsNew |-> FALSE, BackupPath |-> BackupName],
          file |-> Present(newContent),
          bak |-> IF io = "backup" THEN b ELSE Present(f.data)]

\* Backup, then overwrite.  io names the system call that fails, if any; a failed
\* write leaves its target as it was.
BackupAndWrite(dir, f, b, newContent, newPort, io) ==
    IF io = "backup" THEN Failed(ErrIO, f, b)
    ELSE IF io = "write" THEN Failed(ErrIO, f, Present(f.data))
    ELSE [err |-> "",
          cfg |-> [Path |-> dir, Port |-> newPort, IsNew |-> FALSE, BackupPath |-> BackupName],
          file |-> Present(newContent), bak |-> Present(f.data)]

\* A faulty return for a file left as it is, for comparison: it names a backup.
UnchangedWithBackup(dir, f, b, p) ==
    [err |-> "", cfg |-> [Path |-> dir, Port |-> p, IsNew |-> FALSE, BackupPath |-> BackupName],
     file |-> f, bak |-> b]

\* The return of a call that leaves the existing Caddyfile as it is.
Unchanged(dir, f, b, p) ==
    [err |-> "", cfg |-> [Path |-> dir, Port |-> p, IsNew |-> FALSE, BackupPath |-> ""],
     file |-> f, bak |-> b]

\* No Caddyfile: one is written for port p; free is the outcome of findFreePort,
\* which counts when no port is desired.
CreateCaddyfile(dir, f, b, hasDesired, p, free, io) ==
    IF ~hasDesired /\ free.err # "" THEN Failed(free.err, f, b)
    ELSE IF io = "write" THEN Failed(ErrIO, f, b)
    ELSE [err |-> "",
          cfg |-> [Path |-> dir, Port |-> p, IsNew |-> TRUE, BackupPath |-> ""],
          file |-> Present(CreatedContent(p)), bak |-> b]

\* Either rewrite: the fields that carry the current port get newPort, the old
\* bytes go to the backup and the new content is written.
RewriteCaddyfile(dir, f, b, lines, found, newPort, io) ==
    IF ~PortUpdated(found.lineFields, found.currentPort) THEN Failed(ErrCouldNotUpdate, f, b)
    ELSE BackupAndWrite(dir, f, b, RewriteContent(lines, found, newPort), newPort, io)

\* A faulty update, for comparison: a desired port is written even where the
\* file binds it already.
UpdateCaddyfileAlways(dir, f, b, usedPorts, desiredPort, io, lines, found, free) ==
    IF ~found.foundAddress THEN Failed(ErrNoPortDefinition, f, b)
    ELSE IF desiredPort > 0 THEN RewriteCaddyfile(dir, f, b, lines, found, desiredPort, io)
    ELSE IF IsPortFree(found.currentPort) /\ found.currentPort \notin usedPorts
        THEN Unchanged(dir, f, b, found.currentPort)
    ELSE IF free.err # "" THEN Failed(free.err, f, b)
    ELSE RewriteCaddyfile(dir, f, b, lines, found, free.port, io)

\* The Caddyfile exists and has been read: lines are its lines, found is what the
\* loop over them has left behind, free the outcome of findFreePort.
UpdateCaddyfile(dir, f, b, usedPorts, desiredPort, io, lines, found, free) ==
    IF ~found.foundAddress THEN Failed(ErrNoPortDefinition, f, b)
    ELSE IF desiredPort > 0 THEN
        IF found.currentPort = desiredPort THEN Unchanged(dir, f, b, found.currentPort)
        ELSE RewriteCaddyfile(dir, f, b, lines, found, desiredPort, io)
    ELSE IF IsPortFree(found.currentPort) /\ found.currentPort \notin usedPorts
        THEN Unchanged(dir, f, b, found.currentPort)
    ELSE IF free.err # "" THEN Failed(free.err, f, b)
    ELSE RewriteCaddyfile(dir, f, b, lines, found, free.port, io)

\* EnsureCaddyfile once the desired port, if any, has passed checkDesiredPort.
EnsureChecked(dir, f, b, usedPorts, desiredPort, io, free) ==
    IF ~f.exists
    THEN CreateCaddyfile(dir, f, b, desiredPort > 0,
                         IF desiredPort > 0 THEN desiredPort ELSE free.port, free, io)
    ELSE IF io = "read" THEN Failed(ErrIO, f, b)
    ELSE UpdateCaddyfile(dir, f, b, usedPorts, desiredPort, io, Split(f.data, "\n"),
                         FindAddressLine(Split(f.data, "\n"), 1), free)

\* A faulty entry, for comparison: the desired port is taken without a check.
EnsureCaddyfileOnUnchecked(dir, f, b, usedPorts, desiredPort, io) ==
    EnsureChecked(dir, f, b, usedPorts, desiredPort, io,
                  findFreePort(defaultStartPort, defaultEndPort, usedPorts))

\* EnsureCaddyfile(dir, usedPorts, desiredPort) on the Caddyfile f and backup b of
\* dir: the error ("" for nil), the Config, and the two files afterwards.
EnsureCaddyfileOn(dir, f, b, usedPorts, desiredPort, io) ==
    IF desiredPort > 0 /\ checkDesiredPort(desiredPort, usedPorts) # ""
    THEN Failed(checkDesiredPort(desiredPort, usedPorts), f, b)
    ELSE EnsureChecked(dir, f, b, usedPorts, desiredPort, io,
                       findFreePort(defaultStartPort, defaultEndPort, usedPorts))

EnsureCaddyfile(dir, usedPorts, desiredPort, io) ==
    EnsureCaddyfileOn(dir, file[dir], bak[dir], usedPorts, desiredPort, io)

\* A return of EnsureCaddyfileAutoPort: the outcome r of the EnsureCaddyfile call
\* it returns, with the error of its first call and the number of calls it made.
WithAttempts(r, first, calls) ==
    [err |-> r.err, cfg |-> r.cfg, file |-> r.file, bak |-> r.bak,
     first |-> first, calls |-> calls]

\* A faulty fallback, for comparison: every failure of the first call is retried
\* without a desired port.
AutoPortRetryAll(dir, usedPorts, desiredPort, io, r) ==
    IF r.err = "" THEN WithAttempts(r, "", 1)
    ELSE WithAttempts(EnsureCaddyfileOn(dir, r.file, r.bak, usedPorts, 0, io), r.err, 2)

\* EnsureCaddyfileAutoPort after its first call has returned r: success is
\* returned; ErrDesiredPortUnavailable for a desired port leads to a second call
\* without a desired port, whose outcome is returned; any other error is returned.
AutoPortAfter(dir, usedPorts, desiredPort, io, r) ==
    IF r.err = "" THEN WithAttempts(r, "", 1)
    ELSE IF desiredPort > 0 /\ r.err = ErrDesiredPortUnavailable
         THEN WithAttempts(EnsureCaddyfileOn(dir, r.file, r.bak, usedPorts, 0, io), r.err, 2)
    ELSE WithAttempts(r, r.err, 1)

EnsureCaddyfileAutoPort(dir, usedPorts, desiredPort, io) ==
    AutoPortAfter(dir, usedPorts, desiredPort, io,
                  EnsureCaddyfile(dir, usedPorts, desiredPort, io))

\* A faulty removeIfExists, for comparison: a missing file is an error.
removeStrict(f, fault) ==
    IF ~f.exists \/ fault THEN [file |-> f, err |-> ErrIO]
    ELSE [file |-> Absent, err |-> ""]

\* removeIfExists on file f: os.Remove, its not-exist error dropped; fault says
\* os.Remove fails on a file that is there.
removeIfExists(f, fault) ==
    IF ~f.exists THEN [file |-> f, err |-> ""]
    ELSE IF fault THEN [file |-> f, err |-> ErrIO]
    ELSE [file |-> Absent, err |-> ""]

\* errors.Join of the two errors: nil when both are nil.
JoinErrors(e1, e2) == IF e1 = "" /\ e2 = "" THEN "" ELSE ErrIO

\* RemoveCaddyfile(dir): both removals are tried; io names the one that fails.
RemoveCaddyfile(dir, io) ==
    [file |-> removeIfExists(file[dir], io = "file").file,
     bak |-> removeIfExists(bak[dir], io = "bak").file,
     err |-> JoinErrors(removeIfExists(file[dir], io = "file").err,
                        removeIfExists(bak[dir], io = "bak").err)]

-----------------------------------------------------------------------------
(* internal/runner: the Manager's tables and the subprocesses.             *)

defaultLogMaxLines == 1000

\* No LogBuffer under the path.
NoBuf == [lines |-> <<>>, max |-> 0, partial |-> ""]

NewLogBuffer(max) ==
    [lines |-> <<>>, max |-> IF max <= 0 THEN defaultLogMaxLines ELSE max, partial |-> ""]

\* strings.ReplaceAll(s, "\r\n", "\n")
RECURSIVE ReplaceCRLF(_)
ReplaceCRLF(s) ==
    IF Len(s) = 0 THEN ""
    ELSE IF HasPrefix(s, "\r\n") THEN "\n" \o ReplaceCRLF(SubSeq(s, 3, Len(s)))
    ELSE Char(s, 1) \o ReplaceCRLF(SubSeq(s, 2, Len(s)))

\* The lines after append: past max, the oldest go.
KeepLast(ls, max) == IF Len(ls) > max THEN SubSeq(ls, Len(ls) - max + 1, Len(ls)) ELSE ls

appendLine(b, line) == [b EXCEPT !.lines = KeepLast(Append(b.lines, line), b.max)]

\* The loop of Write over parts.
RECURSIVE appendLines(_, _)
appendLines(b, parts) ==
    IF Len(parts) = 0 THEN b
    ELSE appendLines(appendLine(b, parts[1]), SubSeq(parts, 2, Len(parts)))

\* Write once text is the old partial line and the chunk, and parts its split:
\* without a line break at its end the last part becomes the partial line, and
\* the parts that are left are appended.
WriteParts(b, text, parts) ==
    IF ~HasSuffix(text, "\n")
    THEN appendLines([b EXCEPT !.partial = parts[Len(parts)]],
                     SubSeq(parts, 1, Len(parts) - 1))
    ELSE appendLines([b EXCEPT !.partial = ""], parts)

\* A faulty Write, for comparison: the partial line is dropped, not joined with
\* the chunk.
WriteDroppingPartial(b, p) ==
    IF Len(p) = 0 THEN b
    ELSE WriteParts(b, ReplaceCRLF(p), Split(ReplaceCRLF(p), "\n"))

\* LogBuffer.Write(p) on buffer b.
Write(b, p) ==
    IF Len(p) = 0 THEN b
    ELSE WriteParts(b, b.partial \o ReplaceCRLF(p), Split(b.partial \o ReplaceCRLF(p), "\n"))

\* What Tail cuts its result from: the lines, then the partial line if there is one.
TailSource(b) == IF b.partial # "" THEN Append(b.lines, b.partial) ELSE b.lines

\* A faulty Tail, for comparison: the first n entries instead of the last.
TailHead(b, n) ==
    IF n <= 0 \/ n >= Len(TailSource(b)) THEN TailSource(b)
    ELSE SubSeq(TailSource(b), 1, n)

\* LogBuffer.Tail(n)
TailLines(b, n) ==
    IF n <= 0 \/ n >= Len(TailSource(b)) THEN TailSource(b)
    ELSE SubSeq(TailSource(b), Len(TailSource(b)) - n + 1, Len(TailSource(b)))

\* LogBuffer.TailText(n)
TailText(b, n) == Join(TailLines(b, n), "\n")

\* n: the count asked for; lines: what Tail returned; text: what TailLogs
\* returned; k: the calls made so far; at: the writes made before the call.
NoTail == [n |-> 0, lines |-> <<>>, text |-> "", k |-> 0, at |-> 0]

NoProc == [ID |-> "", Cmd |-> 0, Port |-> 0, CaddyConfig |-> NoConfig]
NoExit == [When |-> 0, Err |-> "", Failed |-> FALSE]
\* A subprocess as the operating system sees it: state is "none", "running" or
\* "exited"; err says Wait returns an error; killed, that it died of the signal
\* Stop sent.
NoCmd == [state |-> "none", dir |-> "", port |-> 0, err |-> FALSE, killed |-> FALSE]
\* rival: the subprocess a Start recorded for the same path while this call was
\* inside Start.
NoArg == [dir |-> "", desired |-> 0, used |-> {}, cfg |-> NoConfig, proc |-> 0,
          before |-> Absent, rival |-> 0]
\* What a call returned: pid is the subprocess it spawned or signalled, rival the
\* one a concurrent Start recorded for the same path.
NoRet == [op |-> "", dir |-> "", err |-> "", pid |-> 0, rival |-> 0]
Ret(op, dir, err) == [NoRet EXCEPT !.op = op, !.dir = dir, !.err = err]
\* op: the function called; first: the error of the first EnsureCaddyfile of an
\* EnsureCaddyfileAutoPort; calls: the EnsureCaddyfile calls the function made.
NoCall == [n |-> 0, op |-> "", dir |-> "", usedPorts |-> {}, desiredPort |-> 0, io |-> "",
           err |-> "", cfg |-> NoConfig, before |-> Absent, bakBefore |-> Absent,
           first |-> "", calls |-> 0]

ErrAlreadyRunning == "process already running for directory"
ErrNoProcess == "no process running for directory"
ErrSpawn == "exec: spawn failed"
ErrKill == "os: kill failed"
ErrWait == "exit status 1"

\* NewManager, no subprocess spawned, every caller idle.
InitManager ==
    /\ processes = [d \in Dirs |-> NoProc]
    /\ logs = [d \in Dirs |-> NoBuf]
    /\ exitInfo = [d \in Dirs |-> NoExit]
    /\ stopReq = [d \in Dirs |-> FALSE]
    /\ cmd = [p \in Pids |-> NoCmd]
    /\ watcher = [p \in Pids |-> "none"]
    /\ nextPid = 1
    /\ pc = [t \in Threads |-> "idle"]
    /\ arg = [t \in Threads |-> NoArg]
    /\ ret = NoRet
    /\ origin = [p \in Pids |-> Absent]
    /\ requests = 0

managerVars == <<processes, logs, exitInfo, stopReq, cmd, watcher, nextPid,
                 pc, arg, ret, origin, requests>>

fileVars == <<file, bak, osBusy, binds>>

\* The system call of EnsureCaddyfile that fails, if any; in the run request
\* the calls of EnsureCaddyfile are taken to work.
IoFaults == { "none", "read", "backup", "write" }
RunFaults == { "none" }
\* Whether the os.Remove or os.Rename of cleanup fails.
CleanupFaults == BOOLEAN

\* Two faulty existence checks, for comparison with Running: one that never finds
\* an entry, and one that takes an entry whose subprocess has terminated for gone.
NeverRunning(dir) == FALSE
RunningAlive(dir) == processes[dir] # NoProc /\ cmd[processes[dir].Cmd].state = "running"

\* _, exists := m.processes[dir]
Running(dir) == processes[dir] # NoProc

ActiveDirs == {d \in Dirs : Running(d)}

\* A faulty UsedPorts, for comparison: the ports of the entries whose subprocess
\* has not terminated.
UsedPortsAlive == {processes[d].Port : d \in {e \in Dirs : RunningAlive(e)}}

UsedPorts == {processes[d].Port : d \in ActiveDirs}
List == {processes[d] : d \in ActiveDirs}
Get(dir) == [p |-> processes[dir], ok |-> Running(dir)]
LastExit(dir) == [info |-> exitInfo[dir], ok |-> exitInfo[dir] # NoExit]

\* The callers the model lets run: the run request of the HTTP server (UsedPorts,
\* EnsureCaddyfile, Start), Stop, ClearExit, ClearLogs and the queries.
RunDesired == {0}

\* A caller begins a call.
Begin(t) ==
    /\ pc[t] = "idle"
    /\ requests < MaxRequests
    /\ requests' = requests + 1

Done(t, r) ==
    /\ pc' = [pc EXCEPT ![t] = "idle"]
    /\ arg' = [arg EXCEPT ![t] = NoArg]
    /\ ret' = r

\* POST /api/run, first half: mgr.UsedPorts() is sampled under the lock.
RunUsedPorts(t, d, desired) ==
    /\ Begin(t)
    /\ pc' = [pc EXCEPT ![t] = "run_ensure"]
    /\ arg' = [arg EXCEPT ![t] = [NoArg EXCEPT !.dir = d, !.desired = desired,
                                               !.used = UsedPorts]]
    /\ UNCHANGED ret
    /\ UNCHANGED <<processes, logs, exitInfo, stopReq, cmd, watcher, nextPid,
                   fileVars, ens, probe, fed, mu, tail, origin>>

\* POST /api/run, second half: caddy.EnsureCaddyfile with the sampled ports; an
\* error ends the request, otherwise Start is called with the Config.
RunEnsure(t) ==
    /\ pc[t] = "run_ensure"
    /\ \E io \in RunFaults, d \in {arg[t].dir} :
        \E r \in {EnsureCaddyfile(d, arg[t].used, arg[t].desired, io)} :
            /\ file' = [file EXCEPT ![d] = r.file]
            /\ bak' = [bak EXCEPT ![d] = r.bak]
            /\ IF r.err # ""
               THEN Done(t, Ret("EnsureCaddyfile", d, r.err))
               ELSE /\ pc' = [pc EXCEPT ![t] = "start"]
                    /\ arg' = [arg EXCEPT ![t].cfg = r.cfg, ![t].before = file[d]]
                    /\ UNCHANGED ret
    /\ UNCHANGED <<requests, processes, logs, exitInfo, stopReq, cmd, watcher, nextPid,
                   osBusy, binds, ens, probe, fed, mu, tail, origin>>

\* A faulty lookup, for comparison: every Start gets a new buffer.
newLogBufferAlways(dir) == NewLogBuffer(defaultLogMaxLines)

\* getOrCreateLogBufferLocked
getOrCreateLogBuffer(dir) ==
    IF logs[dir] = NoBuf THEN NewLogBuffer(defaultLogMaxLines) ELSE logs[dir]

\* Manager.TailLogs(dir, n)
TailLogs(dir, n) == IF logs[dir] = NoBuf THEN "" ELSE TailText(logs[dir], n)

\* A faulty delete, for comparison: the key stays.
DeletedNot(m, dir, zero) == m

\* delete(m, dir) as Start does it for m.exitInfo and m.stopReq: the key reads
\* as the zero value afterwards.
Deleted(m, dir, zero) == [m EXCEPT ![dir] = zero]

\* The Process Start records for subprocess p.
NewProcess(dir, cfg, p) == [ID |-> dir, Cmd |-> p, Port |-> cfg.Port, CaddyConfig |-> cfg]

\* A faulty Start, for comparison: the Process is recorded before the spawn and
\* stays when the spawn fails.
StartLockedRecordsFailed(t) ==
    /\ LET d == arg[t].dir
           p == nextPid
       IN  IF Running(d)
           THEN /\ Done(t, [Ret("Start", d, ErrAlreadyRunning) EXCEPT !.rival = arg[t].rival])
                /\ UNCHANGED <<exitInfo, stopReq, logs, processes, cmd, watcher, nextPid,
                               origin>>
           ELSE /\ exitInfo' = Deleted(exitInfo, d, NoExit)
                /\ stopReq' = Deleted(stopReq, d, FALSE)
                /\ logs' = [logs EXCEPT ![d] = getOrCreateLogBuffer(d)]
                /\ \/ /\ Done(t, [Ret("Start", d, ErrSpawn) EXCEPT !.rival = arg[t].rival])
                      /\ processes' = [processes EXCEPT ![d] = NewProcess(d, arg[t].cfg, p)]
                      /\ UNCHANGED <<cmd, watcher, nextPid, origin>>
                   \/ /\ nextPid <= MaxProcs
                      /\ processes' = [processes EXCEPT ![d] = NewProcess(d, arg[t].cfg, p)]
                      /\ cmd' = [cmd EXCEPT ![p] = [NoCmd EXCEPT !.state = "running",
                                                                 !.dir = d,
                                                                 !.port = arg[t].cfg.Port]]
                      /\ watcher' = [watcher EXCEPT ![p] = "wait"]
                      /\ nextPid' = nextPid + 1
                      /\ origin' = [origin EXCEPT ![p] = arg[t].before]
                      /\ pc' = [pc EXCEPT ![t] = "idle"]
                      /\ ret' = [Ret("Start", d, "") EXCEPT !.pid = p, !.rival = arg[t].rival]
                      /\ arg' = [u \in Threads |->
                                    IF u = t THEN NoArg
                                    ELSE IF pc[u] = "start" /\ arg[u].dir = d
                                         THEN [arg[u] EXCEPT !.rival = p]
                                    ELSE arg[u]]
    /\ UNCHANGED <<requests, fileVars, ens, probe, fed, tail>>

\* A faulty Start, for comparison: the stale exit record and stop flag are
\* deleted before the table is consulted.
StartLockedDeletesFirst(t) ==
    /\ LET d == arg[t].dir
           p == nextPid
       IN  /\ exitInfo' = Deleted(exitInfo, d, NoExit)
           /\ stopReq' = Deleted(stopReq, d, FALSE)
           /\ IF Running(d)
              THEN /\ Done(t, [Ret("Start", d, ErrAlreadyRunning) EXCEPT !.rival = arg[t].rival])
                   /\ UNCHANGED <<logs, processes, cmd, watcher, nextPid, origin>>
              ELSE /\ logs' = [logs EXCEPT ![d] = getOrCreateLogBuffer(d)]
                   /\ \/ /\ Done(t, [Ret("Start", d, ErrSpawn) EXCEPT !.rival = arg[t].rival])
                         /\ UNCHANGED <<processes, cmd, watcher, nextPid, origin>>
                      \/ /\ nextPid <= MaxProcs
                         /\ processes' = [processes EXCEPT ![d] = NewProcess(d, arg[t].cfg, p)]
                         /\ cmd' = [cmd EXCEPT ![p] = [NoCmd EXCEPT !.state = "running",
                                                                    !.dir = d,
                                                                    !.port = arg[t].cfg.Port]]
                         /\ watcher' = [watcher EXCEPT ![p] = "wait"]
                         /\ nextPid' = nextPid + 1
                         /\ origin' = [origin EXCEPT ![p] = arg[t].before]
                         /\ pc' = [pc EXCEPT ![t] = "idle"]
                         /\ ret' = [Ret("Start", d, "") EXCEPT !.pid = p, !.rival = arg[t].rival]
                         /\ arg' = [u \in Threads |->
                                       IF u = t THEN NoArg
                                       ELSE IF pc[u] = "start" /\ arg[u].dir = d
                                            THEN [arg[u] EXCEPT !.rival = p]
                                       ELSE arg[u]]
    /\ UNCHANGED <<requests, fileVars, ens, probe, fed, tail>>

\* Start, one critical section from Lock to the deferred Unlock: a path with an
\* entry is rejected; otherwise the stale exit record and stop flag go, the log
\* buffer is found or made, and cmd.Start() runs: a failed spawn returns the
\* error, a successful one records the Process and launches its monitor goroutine.
StartLocked(t) ==
    /\ LET d == arg[t].dir
           p == nextPid
       IN  IF Running(d)
           THEN /\ Done(t, [Ret("Start", d, ErrAlreadyRunning) EXCEPT !.rival = arg[t].rival])
                /\ UNCHANGED <<exitInfo, stopReq, logs, processes, cmd, watcher, nextPid,
                               origin>>
           ELSE /\ exitInfo' = Deleted(exitInfo, d, NoExit)
                /\ stopReq' = Deleted(stopReq, d, FALSE)
                /\ logs' = [logs EXCEPT ![d] = getOrCreateLogBuffer(d)]
                /\ \/ /\ Done(t, [Ret("Start", d, ErrSpawn) EXCEPT !.rival = arg[t].rival])
                      /\ UNCHANGED <<processes, cmd, watcher, nextPid, origin>>
                   \/ /\ nextPid <= MaxProcs
                      /\ processes' = [processes EXCEPT ![d] = NewProcess(d, arg[t].cfg, p)]
                      /\ cmd' = [cmd EXCEPT ![p] = [NoCmd EXCEPT !.state = "running",
                                                                 !.dir = d,
                                                                 !.port = arg[t].cfg.Port]]
                      /\ watcher' = [watcher EXCEPT ![p] = "wait"]
                      /\ nextPid' = nextPid + 1
                      /\ origin' = [origin EXCEPT ![p] = arg[t].before]
                      /\ pc' = [pc EXCEPT ![t] = "idle"]
                      /\ ret' = [Ret("Start", d, "") EXCEPT !.pid = p, !.rival = arg[t].rival]
                      /\ arg' = [u \in Threads |->
                                    IF u = t THEN NoArg
                                    ELSE IF pc[u] = "start" /\ arg[u].dir = d
                                         THEN [arg[u] EXCEPT !.rival = p]
                                    ELSE arg[u]]
    /\ UNCHANGED <<requests, fileVars, ens, probe, fed, tail>>

\* m.Start(dir, config, ...), called by the run request.
Start(t) ==
    /\ pc[t] = "start"
    /\ StartLocked(t)
    /\ UNCHANGED mu

\* A faulty marking, for comparison with StopMark: the flag is set before the
\* entry is looked up.
StopMarkAlways(dir, exists) == [stopReq EXCEPT ![dir] = TRUE]

\* Stop, first critical section: the flag is set only for a path with an entry.
StopMark(dir, exists) == IF exists THEN [stopReq EXCEPT ![dir] = TRUE] ELSE stopReq

StopEnter(t, d) ==
    /\ Begin(t)
    /\ stopReq' = StopMark(d, Running(d))
    /\ IF Running(d)
       THEN /\ pc' = [pc EXCEPT ![t] = "stop_kill"]
            /\ arg' = [arg EXCEPT ![t] = [NoArg EXCEPT !.dir = d, !.proc = processes[d].Cmd]]
            /\ UNCHANGED ret
       ELSE Done(t, Ret("Stop", d, ErrNoProcess))
    /\ UNCHANGED <<processes, logs, exitInfo, cmd, watcher, nextPid,
                   fileVars, ens, probe, fed, mu, tail, origin>>

\* proc.Cmd.Process.Kill(), outside the lock.  It succeeds while Wait has not
\* returned (on a subprocess that has already terminated it changes nothing) and
\* fails once Wait has returned; the signal may also fail to be delivered.
StopKill(t) ==
    /\ pc[t] = "stop_kill"
    /\ LET d == arg[t].dir
           p == arg[t].proc
       IN  \/ /\ watcher[p] = "wait"
              /\ cmd' = IF cmd[p].state = "running"
                        THEN [cmd EXCEPT ![p].state = "exited", ![p].err = TRUE,
                                         ![p].killed = TRUE]
                        ELSE cmd
              /\ Done(t, [Ret("Stop", d, "") EXCEPT !.pid = p])
           \/ /\ pc' = [pc EXCEPT ![t] = "stop_rollback"]
              /\ UNCHANGED <<cmd, arg, ret>>
    /\ UNCHANGED <<requests, processes, logs, exitInfo, stopReq, watcher, nextPid,
                   fileVars, ens, probe, fed, mu, tail, origin>>

\* Stop, after a failed Kill: the flag is deleted under the lock, the error returned.
StopRollback(t) ==
    /\ pc[t] = "stop_rollback"
    /\ stopReq' = [stopReq EXCEPT ![arg[t].dir] = FALSE]
    /\ Done(t, [Ret("Stop", arg[t].dir, ErrKill) EXCEPT !.pid = arg[t].proc])
    /\ UNCHANGED <<requests, processes, logs, exitInfo, cmd, watcher, nextPid,
                   fileVars, ens, probe, fed, mu, tail, origin>>

ClearExit(t, d) ==
    /\ Begin(t)
    /\ exitInfo' = [exitInfo EXCEPT ![d] = NoExit]
    /\ stopReq' = [stopReq EXCEPT ![d] = FALSE]
    /\ Done(t, Ret("ClearExit", d, ""))
    /\ UNCHANGED <<processes, logs, cmd, watcher, nextPid, fileVars, ens, probe, fed,
                   mu, tail, origin>>

\* A faulty ClearLogs, for comparison: it drops the exit record with the buffer.
ClearLogsAndExit(t, d) ==
    /\ Begin(t)
    /\ logs' = [logs EXCEPT ![d] = NoBuf]
    /\ exitInfo' = [exitInfo EXCEPT ![d] = NoExit]
    /\ Done(t, Ret("ClearLogs", d, ""))
    /\ UNCHANGED <<processes, stopReq, cmd, watcher, nextPid, fileVars, ens, probe, fed,
                   mu, tail, origin>>

\* ClearLogs drops the path's buffer; the next Start makes a new one.
ClearLogs(t, d) ==
    /\ Begin(t)
    /\ logs' = [logs EXCEPT ![d] = NoBuf]
    /\ Done(t, Ret("ClearLogs", d, ""))
    /\ UNCHANGED <<processes, exitInfo, stopReq, cmd, watcher, nextPid, fileVars, ens,
                   probe, fed, mu, tail, origin>>

\* List, Get, UsedPorts, LastExit and TailLogs take the lock, read and return.
Query(t) ==
    /\ pc[t] = "idle"
    /\ UNCHANGED vars

-----------------------------------------------------------------------------
(* The subprocess and its monitor goroutine.                               *)

\* The subprocess terminates of its own accord, with or without an error.
ProcExit(p) ==
    /\ cmd[p].state = "running"
    /\ \E e \in BOOLEAN : cmd' = [cmd EXCEPT ![p].state = "exited", ![p].err = e]
    /\ UNCHANGED <<requests, processes, logs, exitInfo, stopReq, watcher, nextPid,
                   fileVars, pc, arg, ret, ens, probe, fed, mu, tail, origin>>

\* A faulty monitor, for comparison: it goes on without waiting for the exit.
WatcherNoWait(p) ==
    /\ watcher[p] = "wait"
    /\ watcher' = [watcher EXCEPT ![p] = "recordExit"]
    /\ UNCHANGED <<requests, processes, logs, exitInfo, stopReq, cmd, nextPid,
                   fileVars, pc, arg, ret, ens, probe, fed, mu, tail, origin>>

\* err := p.Cmd.Wait() returns.
WatcherWait(p) ==
    /\ watcher[p] = "wait"
    /\ cmd[p].state = "exited"
    /\ watcher' = [watcher EXCEPT ![p] = "recordExit"]
    /\ UNCHANGED <<requests, processes, logs, exitInfo, stopReq, cmd, nextPid,
                   fileVars, pc, arg, ret, ens, probe, fed, mu, tail, origin>>

\* The ExitInfo recordExit writes; the time of the write is told apart from every
\* other by the number of the subprocess.
NewExitInfo(p, err, stopRequested) ==
    [When |-> p, Err |-> IF err THEN ErrWait ELSE "", Failed |-> err /\ ~stopRequested]

\* m.recordExit(p.ID, err)
WatcherRecordExit(p) ==
    /\ watcher[p] = "recordExit"
    /\ LET d == cmd[p].dir
       IN  /\ stopReq' = [stopReq EXCEPT ![d] = FALSE]
           /\ exitInfo' = [exitInfo EXCEPT ![d] = NewExitInfo(p, cmd[p].err, stopReq[d])]
    /\ watcher' = [watcher EXCEPT ![p] = "cleanup"]
    /\ UNCHANGED <<requests, processes, logs, cmd, nextPid, fileVars, pc, arg, ret, ens,
                   probe, fed, mu, tail, origin>>

\* A faulty cleanup, for comparison: the backup is copied over the file and kept.
CleanupFilesCopy(cfg, f, b, fault) ==
    IF cfg.IsNew
    THEN IF fault \/ ~f.exists THEN [file |-> f, bak |-> b, err |-> TRUE]
         ELSE [file |-> Absent, bak |-> b, err |-> FALSE]
    ELSE IF cfg.BackupPath # ""
    THEN IF fault \/ ~b.exists THEN [file |-> f, bak |-> b, err |-> TRUE]
         ELSE [file |-> b, bak |-> b, err |-> FALSE]
    ELSE [file |-> f, bak |-> b, err |-> FALSE]

\* The files after cleanup has dealt with Config cfg: a new file is removed, a
\* backup is renamed over the file; fault says the system call fails.  err is
\* the error cleanup discards.
CleanupFiles(cfg, f, b, fault) ==
    IF cfg.IsNew
    THEN IF fault \/ ~f.exists THEN [file |-> f, bak |-> b, err |-> TRUE]
         ELSE [file |-> Absent, bak |-> b, err |-> FALSE]
    ELSE IF cfg.BackupPath # ""
    THEN IF fault \/ ~b.exists THEN [file |-> f, bak |-> b, err |-> TRUE]
         ELSE [file |-> b, bak |-> Absent, err |-> FALSE]
    ELSE [file |-> f, bak |-> b, err |-> FALSE]

\* m.cleanup(p.ID): the entry found under the path is cleaned up and deleted.
WatcherCleanup(p) ==
    /\ watcher[p] = "cleanup"
    /\ LET d == cmd[p].dir
       IN  IF ~Running(d)
           THEN UNCHANGED <<processes, cmd, file, bak>>
           ELSE \E fault \in CleanupFaults :
                   LET r == CleanupFiles(processes[d].CaddyConfig, file[d], bak[d], fault)
                   IN  /\ file' = [file EXCEPT ![d] = r.file]
                       /\ bak' = [bak EXCEPT ![d] = r.bak]
                       /\ processes' = [processes EXCEPT ![d] = NoProc]
                       /\ UNCHANGED cmd
    /\ watcher' = [watcher EXCEPT ![p] = "done"]
    /\ UNCHANGED <<requests, logs, exitInfo, stopReq, nextPid, osBusy, binds, pc, arg,
                   ret, ens, probe, fed, mu, tail, origin>>

-----------------------------------------------------------------------------
(* The supervisor with its callers.                                        *)

\* The path the callers of the supervisor work on.
RunDir == "d1"

\* One project, with or without a Caddyfile, and port 8080 free or held by a
\* foreign listener.
Init ==
    /\ InitManager
    /\ \E f \in {Absent, Present(":8080 {\n}")} :
          file = [d \in Dirs |-> IF d = RunDir THEN f ELSE Absent]
    /\ bak = [d \in Dirs |-> Absent]
    /\ osBusy \in {{}, {8080}}
    /\ binds = AllBind
    /\ ens = NoCall
    /\ probe = NoProbe
    /\ fed = <<>>
    /\ mu = ""
    /\ tail = NoTail

Next ==
    \/ \E t \in Threads, desired \in RunDesired : RunUsedPorts(t, RunDir, desired)
    \/ \E t \in Threads : RunEnsure(t)
    \/ \E t \in Threads : Start(t)
    \/ \E t \in Threads : StopEnter(t, RunDir)
    \/ \E t \in Threads : StopKill(t)
    \/ \E t \in Threads : StopRollback(t)
    \/ \E t \in Threads : ClearExit(t, RunDir)
    \/ \E t \in Threads : ClearLogs(t, RunDir)
    \/ \E t \in Threads : Query(t)
    \/ \E p \in Pids : ProcExit(p)
    \/ \E p \in Pids : WatcherWait(p)
    \/ \E p \in Pids : WatcherRecordExit(p)
    \/ \E p \in Pids : WatcherCleanup(p)

Spec == Init /\ [][Next]_vars

\* The supervisor with the lock of Start told apart: Start takes m.mu, and where
\* the path has no entry it goes on to cmd.Start() with the lock held, which the
\* deferred Unlock releases when Start returns.  The other critical sections
\* are single steps and wait for the lock to be free.
LockFree == mu = ""

\* m.mu.Lock() of Start and the check for an entry: a path with an entry is
\* rejected at once, otherwise the caller stands before the spawn, holding m.mu.
StartLock(t) ==
    /\ pc[t] = "start"
    /\ LockFree
    /\ IF Running(arg[t].dir)
       THEN StartLocked(t) /\ UNCHANGED mu
       ELSE /\ mu' = t
            /\ pc' = [pc EXCEPT ![t] = "start_spawn"]
            /\ UNCHANGED <<processes, logs, exitInfo, stopReq, cmd, watcher, nextPid,
                           arg, ret, origin, requests, fileVars, ens, probe, fed, tail>>

\* A faulty Start, for comparison: the lock is released on the successful path
\* only, so that a failed spawn returns with m.mu held.
StartSpawnKeepsLock(t) ==
    /\ pc[t] = "start_spawn"
    /\ mu = t
    /\ StartLocked(t)
    /\ mu' = IF ret'.err = "" THEN "" ELSE t

\* The rest of Start, from delete(m.exitInfo, dir) through cmd.Start() to the
\* return, where the deferred m.mu.Unlock() runs.
StartSpawn(t) ==
    /\ pc[t] = "start_spawn"
    /\ mu = t
    /\ StartLocked(t)
    /\ mu' = ""

NextLock ==
    \/ LockFree /\ \E t \in Threads, desired \in RunDesired : RunUsedPorts(t, RunDir, desired)
    \/ \E t \in Threads : RunEnsure(t)
    \/ \E t \in Threads : StartLock(t)
    \/ \E t \in Threads : StartSpawn(t)
    \/ LockFree /\ \E t \in Threads : StopEnter(t, RunDir)
    \/ \E t \in Threads : StopKill(t)
    \/ LockFree /\ \E t \in Threads : StopRollback(t)
    \/ LockFree /\ \E t \in Threads : ClearExit(t, RunDir)
    \/ LockFree /\ \E t \in Threads : ClearLogs(t, RunDir)
    \/ LockFree /\ \E t \in Threads : Query(t)
    \/ \E p \in Pids : ProcExit(p)
    \/ \E p \in Pids : WatcherWait(p)
    \/ LockFree /\ \E p \in Pids : WatcherRecordExit(p)
    \/ LockFree /\ \E p \in Pids : WatcherCleanup(p)

SpecLock == Init /\ [][NextLock]_vars

\* What the scheduling gives the supervisor.  A step that waits for nothing
\* goes on: cmd.Start() and Kill return, Wait returns once the subprocess has
\* exited.  A step that waits for m.mu gets it once the lock stays free;
\* sync.Mutex hands the lock to a waiter that has waited long, and as the
\* callers begin MaxRequests calls at most, a lock that is free again and again
\* is free in the end, so that weak fairness says as much as strong fairness.
\* Nothing makes a subprocess exit, a caller begin a call, or the provisioner
\* of a run request return.
FairLock ==
    /\ \A t \in Threads :
          /\ WF_vars(StartLock(t))
          /\ WF_vars(StartSpawn(t))
          /\ WF_vars(StopKill(t))
          /\ WF_vars(LockFree /\ StopRollback(t))
    /\ \A p \in Pids :
          /\ WF_vars(WatcherWait(p))
          /\ WF_vars(LockFree /\ WatcherRecordExit(p))
          /\ WF_vars(LockFree /\ WatcherCleanup(p))

SpecLockFair == Init /\ [][NextLock]_vars /\ FairLock

\* Writes of subprocesses explored.
MaxOutput == 2

\* The supervisor with the output of its subprocesses.  cmd.Stdout and cmd.Stderr
\* write to the LogBuffer Start found or made; Wait returns only after the
\* output has been copied, so a subprocess writes while its entry is in the
\* table.  In that time the buffer of the path is the one Start attached unless
\* ClearLogs has taken it out of m.logs, and then the output goes to a buffer
\* that TailLogs no longer finds.  Subprocess p writes its number as a line.
ProcWrite(p) ==
    /\ cmd[p].state = "running"
    /\ Len(fed) < MaxOutput
    /\ fed' = Append(fed, Itoa(p) \o "\n")
    /\ logs' = IF logs[cmd[p].dir] = NoBuf THEN logs
               ELSE [logs EXCEPT ![cmd[p].dir] = Write(logs[cmd[p].dir], Itoa(p) \o "\n")]
    /\ UNCHANGED <<processes, exitInfo, stopReq, cmd, watcher, nextPid, pc, arg, ret,
                   origin, requests, fileVars, ens, probe, mu, tail>>

NextOutput ==
    \/ \E t \in Threads, desired \in RunDesired : RunUsedPorts(t, RunDir, desired)
    \/ \E t \in Threads : RunEnsure(t)
    \/ \E t \in Threads : Start(t)
    \/ \E t \in Threads : StopEnter(t, RunDir)
    \/ \E t \in Threads : StopKill(t)
    \/ \E t \in Threads : StopRollback(t)
    \/ \E t \in Threads : ClearLogs(t, RunDir)
    \/ \E p \in Pids : ProcWrite(p)
    \/ \E p \in Pids : ProcExit(p)
    \/ \E p \in Pids : WatcherWait(p)
    \/ \E p \in Pids : WatcherRecordExit(p)
    \/ \E p \in Pids : WatcherCleanup(p)

SpecOutput == Init /\ [][NextOutput]_vars

\* Run requests alone, each caller on a project of its own: one without a
\* Caddyfile, one whose Caddyfile names port 8080.
OwnDir(t) == IF t = "t1" THEN "d1" ELSE "d2"

InitPorts ==
    /\ InitManager
    /\ file = [d \in Dirs |-> IF d = "d1" THEN Absent ELSE Present(":8080 {\n}")]
    /\ bak = [d \in Dirs |-> Absent]
    /\ osBusy = {}
    /\ binds = AllBind
    /\ ens = NoCall
    /\ probe = NoProbe
    /\ fed = <<>>
    /\ mu = ""
    /\ tail = NoTail

NextPorts ==
    \/ \E t \in Threads, desired \in RunDesired : RunUsedPorts(t, OwnDir(t), desired)
    \/ \E t \in Threads : RunEnsure(t)
    \/ \E t \in Threads : Start(t)
    \/ \E p \in Pids : ProcExit(p)
    \/ \E p \in Pids : WatcherWait(p)
    \/ \E p \in Pids : WatcherRecordExit(p)
    \/ \E p \in Pids : WatcherCleanup(p)

SpecPorts == InitPorts /\ [][NextPorts]_vars


-----------------------------------------------------------------------------
(* The provisioner on its own: EnsureCaddyfile called again and again on   *)
(* one project directory, over a range of existing Caddyfiles, port        *)
(* states, arguments and failing system calls.                             *)

SampleFiles ==
    { ":8080 {\n}",
      ":8080 {\n\troot * .\n\tphp_server\n}\n",
      ":8080  {\n}",
      ":8080{\n}",
      ":8080 { \n}",
      "\t:8080 {\n}",
      ":8080\n{\n}",
      ":8080 { # main\n}",
      ":8080 # main\n{\n}",
      "# site\n\nlocalhost:8080 {\n}",
      "[::1]:8080 {\n}",
      "a:8080 b:8080 {\n}",
      ":8080 {\r\n}\r\n",
      "{\n\tdebug\n}\n:8081 {\n}",
      "example.com {\n}",
      ":8080\n\n{\n}",
      "# :8080 {\n}",
      "" }

SampleDir == "d1"

\* Calls made in one behaviour of the provisioner on its own.
MaxCalls == 2

\* Port states: nothing listening, the file's port taken, and the whole default
\* range taken.
OsChoices == { {}, {8080}, defaultStartPort..defaultEndPort }
UsedChoices == { {}, {8080} }
DesiredChoices == { 0, 8080, 9000, 70000 }

\* Every sample file with nothing listening; three of them with each port state.
InitCaddy ==
    /\ InitManager
    /\ \E f \in {Absent} \cup {Present(s) : s \in SampleFiles}, os \in OsChoices :
          /\ os = {} \/ f \in {Absent, Present(":8080 {\n}"), Present(":8080  {\n}")}
          /\ file = [d \in Dirs |-> IF d = SampleDir THEN f ELSE Absent]
          /\ osBusy = os
    /\ binds = AllBind
    /\ bak = [d \in Dirs |-> Absent]
    /\ ens = NoCall
    /\ probe = NoProbe
    /\ fed = <<>>
    /\ mu = ""
    /\ tail = NoTail

CaddyEnsure ==
    /\ ens.n < MaxCalls
    /\ \E used \in UsedChoices, desired \in DesiredChoices, io \in IoFaults :
        \E r \in {EnsureCaddyfile(SampleDir, used, desired, io)} :
            /\ file' = [file EXCEPT ![SampleDir] = r.file]
            /\ bak' = [bak EXCEPT ![SampleDir] = r.bak]
            /\ ens' = [n |-> ens.n + 1, op |-> "EnsureCaddyfile", dir |-> SampleDir,
                       usedPorts |-> used, desiredPort |-> desired, io |-> io,
                       err |-> r.err, cfg |-> r.cfg,
                       before |-> file[SampleDir], bakBefore |-> bak[SampleDir],
                       first |-> r.err, calls |-> 1]
            /\ UNCHANGED <<osBusy, binds, probe, fed, mu, tail, managerVars>>

NextCaddy == CaddyEnsure

SpecCaddy == InitCaddy /\ [][NextCaddy]_vars

-----------------------------------------------------------------------------
(* The three entry points of the provisioner together: EnsureCaddyfile,    *)
(* EnsureCaddyfileAutoPort and RemoveCaddyfile on one project directory,   *)
(* with or without a Caddyfile and a backup to begin with.                 *)

OpsFiles == { ":8080 {\n}", "localhost:8080 {\n}", "example.com {\n}" }
RemoveFaults == { "none", "file", "bak" }

InitOps ==
    /\ InitManager
    /\ \E f \in {Absent} \cup {Present(s) : s \in OpsFiles},
          b \in {Absent, Present(":9000 {\n}")}, os \in OsChoices :
          /\ file = [d \in Dirs |-> IF d = SampleDir THEN f ELSE Absent]
          /\ bak = [d \in Dirs |-> IF d = SampleDir THEN b ELSE Absent]
          /\ osBusy = os
    /\ binds = AllBind
    /\ ens = NoCall
    /\ probe = NoProbe
    /\ fed = <<>>
    /\ mu = ""
    /\ tail = NoTail

CaddyAutoPort ==
    /\ ens.n < MaxCalls
    /\ \E used \in UsedChoices, desired \in DesiredChoices, io \in IoFaults :
        \E r \in {EnsureCaddyfileAutoPort(SampleDir, used, desired, io)} :
            /\ file' = [file EXCEPT ![SampleDir] = r.file]
            /\ bak' = [bak EXCEPT ![SampleDir] = r.bak]
            /\ ens' = [n |-> ens.n + 1, op |-> "EnsureCaddyfileAutoPort", dir |-> SampleDir,
                       usedPorts |-> used, desiredPort |-> desired, io |-> io,
                       err |-> r.err, cfg |-> r.cfg,
                       before |-> file[SampleDir], bakBefore |-> bak[SampleDir],
                       first |-> r.first, calls |-> r.calls]
            /\ UNCHANGED <<osBusy, binds, probe, fed, mu, tail, managerVars>>

CaddyRemove ==
    /\ ens.n < MaxCalls
    /\ \E io \in RemoveFaults :
        \E r \in {RemoveCaddyfile(SampleDir, io)} :
            /\ file' = [file EXCEPT ![SampleDir] = r.file]
            /\ bak' = [bak EXCEPT ![SampleDir] = r.bak]
            /\ ens' = [NoCall EXCEPT !.n = ens.n + 1, !.op = "RemoveCaddyfile",
                                     !.dir = SampleDir, !.io = io, !.err = r.err,
                                     !.before = file[SampleDir],
                                     !.bakBefore = bak[SampleDir]]
            /\ UNCHANGED <<osBusy, binds, probe, fed, mu, tail, managerVars>>

NextOps ==
    \/ CaddyEnsure
    \/ CaddyAutoPort
    \/ CaddyRemove

SpecOps == InitOps /\ [][NextOps]_vars

-----------------------------------------------------------------------------
(* The port allocator on its own: IsPortFree and FindFreePort called on a  *)
(* few ports, over the ports a foreign listener holds and the ways the     *)
(* four binds can answer on the others.                                    *)

ProbePorts == 8080..8082

\* The IPv4 binds work, are refused or lack the address family; the IPv6 binds
\* answer in every way.
BindTables ==
    {t \in [1..4 -> BindOutcomes] :
        \A k \in 1..4 : Checks[k].network = "tcp4"
                            => t[k] \in {"ok", "EADDRINUSE", "EAFNOSUPPORT"}}

InitProbe ==
    /\ InitManager
    /\ file = [d \in Dirs |-> Absent]
    /\ bak = [d \in Dirs |-> Absent]
    /\ osBusy \in SUBSET ProbePorts
    /\ binds \in BindTables
    /\ ens = NoCall
    /\ probe = NoProbe
    /\ fed = <<>>
    /\ mu = ""
    /\ tail = NoTail

ProbeIsPortFree ==
    /\ \E p \in ProbePorts \cup {70000} :
          probe' = [NoProbe EXCEPT !.op = "IsPortFree", !.port = p, !.free = IsPortFree(p)]
    /\ UNCHANGED <<fileVars, ens, fed, mu, tail, managerVars>>

ProbeFindFreePort ==
    /\ \E start \in ProbePorts, end \in ProbePorts :
          \E r \in {FindFreePort(start, end)} :
              probe' = [NoProbe EXCEPT !.op = "FindFreePort", !.start = start, !.end = end,
                                       !.port = r.port, !.err = r.err]
    /\ UNCHANGED <<fileVars, ens, fed, mu, tail, managerVars>>

NextProbe ==
    \/ ProbeIsPortFree
    \/ ProbeFindFreePort

SpecProbe == InitProbe /\ [][NextProbe]_vars

-----------------------------------------------------------------------------
(* The LogBuffer on its own: chunks written one after another to a buffer  *)
(* made by NewLogBuffer.                                                   *)

\* Writes made in one behaviour of the LogBuffer on its own.
MaxWrites == 3

\* The argument of NewLogBuffer: 0 stands for the default maximum.
LogMaxes == {0, 1, 2}

Chunks == { "a\nb\nc", "d", "a\n", "\n", "b\r\n", "a\r", "" }

\* The Manager as new but for one LogBuffer, made by NewLogBuffer(m).
InitLog ==
    /\ \E m \in LogMaxes :
          logs = [d \in Dirs |-> IF d = SampleDir THEN NewLogBuffer(m) ELSE NoBuf]
    /\ processes = [d \in Dirs |-> NoProc]
    /\ exitInfo = [d \in Dirs |-> NoExit]
    /\ stopReq = [d \in Dirs |-> FALSE]
    /\ cmd = [p \in Pids |-> NoCmd]
    /\ watcher = [p \in Pids |-> "none"]
    /\ nextPid = 1
    /\ pc = [t \in Threads |-> "idle"]
    /\ arg = [t \in Threads |-> NoArg]
    /\ ret = NoRet
    /\ origin = [p \in Pids |-> Absent]
    /\ requests = 0
    /\ file = [d \in Dirs |-> Absent]
    /\ bak = [d \in Dirs |-> Absent]
    /\ osBusy = {}
    /\ binds = AllBind
    /\ ens = NoCall
    /\ probe = NoProbe
    /\ fed = <<>>
    /\ mu = ""
    /\ tail = NoTail

LogWrite ==
    /\ Len(fed) < MaxWrites
    /\ \E p \in Chunks :
          /\ logs' = [logs EXCEPT ![SampleDir] = Write(logs[SampleDir], p)]
          /\ fed' = Append(fed, p)
    /\ UNCHANGED <<processes, exitInfo, stopReq, cmd, watcher, nextPid, pc, arg, ret,
                   origin, requests, fileVars, ens, probe, mu, tail>>

\* Tail and TailLogs calls made in one behaviour of the LogBuffer on its own.
MaxTails == 2

TailCounts == { 0 - 1, 0, 1, 2, 5 }

\* b.Tail(n) and m.TailLogs(SampleDir, n), called at the same moment.
LogTail ==
    /\ tail.k < MaxTails
    /\ \E n \in TailCounts :
          tail' = [n |-> n, lines |-> TailLines(logs[SampleDir], n),
                   text |-> TailLogs(SampleDir, n), k |-> tail.k + 1, at |-> Len(fed)]
    /\ UNCHANGED <<processes, logs, exitInfo, stopReq, cmd, watcher, nextPid, pc, arg,
                   ret, origin, requests, fileVars, ens, probe, fed, mu>>

NextLog == LogWrite \/ LogTail

SpecLog == InitLog /\ [][NextLog]_vars

-----------------------------------------------------------------------------
(* Properties of the supervisor (Spec).                                    *)

\* A Start call of caller u returns in this step.
StartReturns(u) == pc[u] = "start" /\ pc'[u] = "idle"

\* C1, as stated: of two concurrent Start calls for one path, the second to
\* take the lock fails with "already running" and spawns nothing, unless its own
\* spawn fails.
C1_SecondStartAlwaysRejected ==
    [][\A u \in Threads :
          (StartReturns(u) /\ arg[u].rival # 0 /\ ret'.err # ErrSpawn)
              => (ret'.err = ErrAlreadyRunning /\ nextPid' = nextPid)]_vars

\* C1, amended: when a Start call returns and a concurrent Start call for the same
\* path has recorded a subprocess whose watcher has not yet finished, the call
\* fails with "already running", spawns nothing and leaves the entry alone.
C1_SecondStartRejectedWhileFirstActive ==
    [][\A u \in Threads :
          (StartReturns(u) /\ arg[u].rival # 0 /\ watcher[arg[u].rival] # "done")
              => /\ ret'.err = ErrAlreadyRunning
                 /\ UNCHANGED <<processes, cmd, watcher, nextPid>>]_vars

\* A Start call lost to a concurrent one whose subprocess is still the entry.
C1_Witness ==
    /\ ret.op = "Start"
    /\ ret.err = ErrAlreadyRunning
    /\ ret.rival # 0
    /\ processes[ret.dir].Cmd = ret.rival

\* C2: every watcher that has not finished belongs to the entry recorded under
\* its path, so a path has at most one entry and at most one unfinished watcher;
\* and a Start call on a path with an entry is rejected and changes nothing.
C2_OneEntryPerPath ==
    /\ [](\A p \in Pids :
             watcher[p] \in {"wait", "recordExit", "cleanup"}
                 => processes[cmd[p].dir].Cmd = p)
    /\ [][\A t \in Threads :
             (StartReturns(t) /\ processes[arg[t].dir] # NoProc)
                 => /\ ret'.err = ErrAlreadyRunning
                    /\ UNCHANGED <<processes, cmd, watcher, nextPid, exitInfo, stopReq>>]_vars

\* A Start call rejected after the subprocess has terminated and its exit has
\* been recorded, before the watcher has removed the entry.
C2_Witness ==
    /\ ret.op = "Start"
    /\ ret.err = ErrAlreadyRunning
    /\ processes[ret.dir] # NoProc
    /\ cmd[processes[ret.dir].Cmd].state = "exited"
    /\ watcher[processes[ret.dir].Cmd] = "cleanup"

\* C4: when the watcher removes the entry of a subprocess that Stop has killed,
\* a Caddyfile marked new is removed, and one marked as backed up holds again
\* what it held before the run, its backup gone.
C4_ConfigRestoredAfterStop ==
    [][\A p \in Pids :
          (watcher[p] = "cleanup" /\ watcher'[p] = "done" /\ cmd[p].killed
              /\ processes[cmd[p].dir].Cmd = p)
              => LET d == cmd[p].dir
                     cfg == processes[d].CaddyConfig
                 IN  /\ processes'[d] = NoProc
                     /\ cfg.IsNew => ~file'[d].exists
                     /\ cfg.BackupPath # "" => file'[d] = origin[p] /\ ~bak'[d].exists]_vars

\* C5: the ExitInfo a watcher writes has Failed set exactly when the subprocess
\* ended with an error and did not die of the signal of a Stop call.
C5_FailedIffUnsolicitedError ==
    [][\A p \in Pids :
          (watcher[p] = "recordExit" /\ watcher'[p] = "cleanup")
              => exitInfo'[cmd[p].dir].Failed = (cmd[p].err /\ ~cmd[p].killed)]_vars

\* C6: when the last call to return is a Stop whose Kill failed, and the exit of
\* the subprocess it aimed at is on record with an error, no Stop having killed
\* it, then the record has Failed set.
C6_ExitAfterFailedStopIsFailure ==
    (/\ ret.op = "Stop"
     /\ ret.err = ErrKill
     /\ exitInfo[ret.dir].When = ret.pid
     /\ exitInfo[ret.dir].Err # ""
     /\ ~cmd[ret.pid].killed)
        => exitInfo[ret.dir].Failed

\* C7: a Stop call on a path without an entry returns the "no process" error and
\* leaves the four tables as they are; no stop flag is set.
C7_StopWithoutEntry ==
    [][\A t \in Threads, d \in Dirs :
          (StopEnter(t, d) /\ processes[d] = NoProc)
              => /\ ret'.op = "Stop" /\ ret'.err = ErrNoProcess
                 /\ pc'[t] = "idle"
                 /\ UNCHANGED <<processes, exitInfo, logs, stopReq>>]_vars

\* A Stop call has returned "no process" for a path that has no entry.
C7_Witness ==
    /\ ret.op = "Stop"
    /\ ret.err = ErrNoProcess
    /\ processes[ret.dir] = NoProc
    /\ ~stopReq[ret.dir]

\* C8: an ExitInfo on record changes or goes only by a ClearExit call for its
\* path or by a Start call that finds no entry under the path.
C8_ExitRecordKept ==
    [][\A d \in Dirs :
          (exitInfo[d] # NoExit /\ exitInfo'[d] # exitInfo[d])
              => \/ \E t \in Threads : ClearExit(t, d)
                 \/ \E t \in Threads :
                       Start(t) /\ arg[t].dir = d /\ processes[d] = NoProc]_vars

\* A Stop call has found no entry under a path, so the watcher had finished, and
\* the ExitInfo the watcher wrote is still on record.
C8_Witness ==
    /\ ret.op = "Stop"
    /\ ret.err = ErrNoProcess
    /\ exitInfo[ret.dir] # NoExit
    /\ LastExit(ret.dir).ok

-----------------------------------------------------------------------------
(* Properties of the run requests on two paths (SpecPorts).                *)

-----------------------------------------------------------------------------
(* Properties of the provisioner (SpecCaddy).                              *)

\* s without its decimal digits.
RECURSIVE StripDigits(_)
StripDigits(s) ==
    IF s = "" THEN ""
    ELSE IF IsDigit(Char(s, 1)) THEN StripDigits(SubSeq(s, 2, Len(s)))
    ELSE Char(s, 1) \o StripDigits(SubSeq(s, 2, Len(s)))

\* C9: a call that rewrites an existing Caddyfile changes digits only: the new
\* content and the old are the same once the digits are taken out.
C9_RewriteChangesDigitsOnly ==
    (ens.n > 0 /\ ens.err = "" /\ ens.before.exists /\ file[ens.dir] # ens.before)
        => StripDigits(file[ens.dir].data) = StripDigits(ens.before.data)

\* C10: a call that changes an existing Caddyfile leaves its bytes of before the
\* call in the backup, and does so only if the backup write works; a failed write
\* of the file finds the backup already written; a failed backup write fails the
\* call with both files as they were.
C10_BackupBeforeOverwrite ==
    ens.n > 0 =>
        /\ (ens.before.exists /\ file[ens.dir] # ens.before)
               => (bak[ens.dir] = ens.before /\ ens.io # "backup")
        /\ (ens.io = "write" /\ ens.err = ErrIO /\ ens.before.exists)
               => (bak[ens.dir] = ens.before /\ file[ens.dir] = ens.before)
        /\ (ens.io = "backup" /\ ens.err = ErrIO)
               => (file[ens.dir] = ens.before /\ bak[ens.dir] = ens.bakBefore)

\* An existing Caddyfile has been overwritten and its backup holds the old bytes.
C10_Witness ==
    /\ ens.n > 0
    /\ ens.err = ""
    /\ ens.before.exists
    /\ file[ens.dir] # ens.before
    /\ bak[ens.dir] = ens.before
    /\ ens.cfg.BackupPath # ""

\* C11: the Config of a successful call names a backup exactly when the call
\* changed a Caddyfile that was there, and is marked new exactly when no
\* Caddyfile was there before the call; it never has both.
C11_BackupIffMutated ==
    (ens.n > 0 /\ ens.err = "") =>
        /\ (ens.cfg.BackupPath # "") <=> (ens.before.exists /\ file[ens.dir] # ens.before)
        /\ ens.cfg.IsNew <=> ~ens.before.exists
        /\ ~(ens.cfg.IsNew /\ ens.cfg.BackupPath # "")

\* A call with a desired port has rewritten an existing Caddyfile and names the
\* backup, the Config not marked new.
C11_Witness ==
    /\ ens.n > 0 /\ ens.err = "" /\ ens.desiredPort > 0
    /\ ens.before.exists /\ file[ens.dir] # ens.before
    /\ ens.cfg.BackupPath # "" /\ ~ens.cfg.IsNew

\* C12: a call without a desired port that follows at once a call without a
\* desired port which created the Caddyfile, with the same usedPorts and its read
\* of the file working, returns the port of the first call, not marked new and
\* without a backup, and leaves the file and the backup as they are.
C12_ReuseAfterCreate ==
    [][(/\ ens.n > 0 /\ ens.err = "" /\ ens.cfg.IsNew /\ ens.desiredPort = 0
        /\ ens'.n = ens.n + 1 /\ ens'.desiredPort = 0
        /\ ens'.usedPorts = ens.usedPorts /\ ens'.io # "read")
          => /\ ens'.err = ""
             /\ ens'.cfg.Port = ens.cfg.Port
             /\ ~ens'.cfg.IsNew
             /\ ens'.cfg.BackupPath = ""
             /\ file' = file /\ bak' = bak]_vars

\* The second of two calls without a desired port has found the file the first
\* created and returned its port.
C12_Witness ==
    /\ ens.n = 2 /\ ens.err = "" /\ ens.desiredPort = 0
    /\ ~ens.cfg.IsNew /\ ens.cfg.BackupPath = ""
    /\ ens.before = Present(CreatedContent(ens.cfg.Port))
    /\ file[ens.dir] = ens.before

\* C13: a call with a desired port in 1..65535 that a listener holds or that
\* usedPorts contains fails with ErrDesiredPortUnavailable, whether a Caddyfile
\* exists or not, and leaves the file and the backup as they were.
C13_DesiredPortUnavailable ==
    (/\ ens.n > 0 /\ ens.desiredPort \in 1..65535
     /\ (ens.desiredPort \in osBusy \/ ens.desiredPort \in ens.usedPorts))
        => /\ ens.err = ErrDesiredPortUnavailable
           /\ file[ens.dir] = ens.before
           /\ bak[ens.dir] = ens.bakBefore

\* A call has failed on a desired port that nobody listens on but usedPorts
\* contains, with a Caddyfile in place.
C13_Witness ==
    /\ ens.n > 0 /\ ens.desiredPort > 0
    /\ ens.desiredPort \notin osBusy /\ ens.desiredPort \in ens.usedPorts
    /\ ens.err = ErrDesiredPortUnavailable
    /\ ens.before.exists /\ file[ens.dir] = ens.before

\* The Caddyfile f binds port p: the loop of EnsureCaddyfile finds p on it.
Binds(f, p) ==
    /\ f.exists
    /\ FindAddressLine(Split(f.data, "\n"), 1).foundAddress
    /\ FindAddressLine(Split(f.data, "\n"), 1).currentPort = p

\* C14: a successful call with a desired port returns that port, and the
\* Caddyfile binds it afterwards.
C14_DesiredPortBound ==
    (ens.n > 0 /\ ens.err = "" /\ ens.desiredPort > 0)
        => (ens.cfg.Port = ens.desiredPort /\ Binds(file[ens.dir], ens.desiredPort))

\* A call with a desired port has moved a Caddyfile that bound another port.
C14_Witness ==
    /\ ens.n > 0 /\ ens.err = "" /\ ens.desiredPort > 0
    /\ ens.before.exists /\ ~Binds(ens.before, ens.desiredPort)
    /\ ens.cfg.Port = ens.desiredPort /\ Binds(file[ens.dir], ens.desiredPort)

\* The port the loop of EnsureCaddyfile finds in Caddyfile f.
CurrentPort(f) == FindAddressLine(Split(f.data, "\n"), 1).currentPort

\* An EnsureCaddyfile call has been made on a Caddyfile that exists and has a
\* port definition, and none of its system calls has failed.
CalledOnParseable ==
    /\ ens.n > 0 /\ ens.io = "none"
    /\ ens.before.exists
    /\ FindAddressLine(Split(ens.before.data, "\n"), 1).foundAddress

\* Nothing listens on port p and usedPorts does not hold it.
Available(p, usedPorts) == p \in 0..65535 /\ p \notin osBusy /\ p \notin usedPorts

\* C29: a call without a desired port on an existing Caddyfile with a port
\* definition returns the file's port, no backup, the file and the backup left as
\* they were, if nothing listens on that port and usedPorts does not hold it;
\* otherwise, if the default range has a port that is free and not in usedPorts, it
\* returns the lowest such port with the backup path, the file binds that port
\* and the backup holds the old bytes.
C29_ReuseOrReallocate ==
    (CalledOnParseable /\ ens.desiredPort = 0) =>
        IF Available(CurrentPort(ens.before), ens.usedPorts)
        THEN /\ ens.err = ""
             /\ ens.cfg.Port = CurrentPort(ens.before)
             /\ ~ens.cfg.IsNew /\ ens.cfg.BackupPath = ""
             /\ file[ens.dir] = ens.before /\ bak[ens.dir] = ens.bakBefore
        ELSE IF \E q \in defaultStartPort..defaultEndPort : Available(q, ens.usedPorts)
        THEN /\ ens.err = ""
             /\ ens.cfg.Port \in defaultStartPort..defaultEndPort
             /\ Available(ens.cfg.Port, ens.usedPorts)
             /\ \A q \in defaultStartPort..(ens.cfg.Port - 1) : ~Available(q, ens.usedPorts)
             /\ ~ens.cfg.IsNew /\ ens.cfg.BackupPath # ""
             /\ Binds(file[ens.dir], ens.cfg.Port)
             /\ bak[ens.dir] = ens.before
        ELSE ens.err = ErrNoFreePort /\ file[ens.dir] = ens.before

\* A call without a desired port has moved a Caddyfile off port 8080, which
\* nothing listens on but usedPorts holds, to 8081.
C29_Witness ==
    /\ CalledOnParseable /\ ens.desiredPort = 0 /\ ens.err = ""
    /\ CurrentPort(ens.before) = 8080
    /\ 8080 \in ens.usedPorts /\ 8080 \notin osBusy
    /\ ens.cfg.Port = 8081 /\ ens.cfg.BackupPath # ""
    /\ Binds(file[ens.dir], 8081)

\* C30: a call whose desired port is the port the existing Caddyfile binds, with
\* nothing listening on it and usedPorts not holding it, returns that port, not
\* marked new and without a backup path, and writes neither file.
C30_DesiredEqualsCurrentNoOp ==
    (/\ CalledOnParseable /\ ens.desiredPort > 0
     /\ ens.desiredPort = CurrentPort(ens.before)
     /\ Available(ens.desiredPort, ens.usedPorts))
        => /\ ens.err = ""
           /\ ens.cfg.Port = ens.desiredPort
           /\ ~ens.cfg.IsNew /\ ens.cfg.BackupPath = ""
           /\ file[ens.dir] = ens.before /\ bak[ens.dir] = ens.bakBefore

\* A call has asked for port 8080 on a Caddyfile that binds 8080 and got it.
C30_Witness ==
    /\ CalledOnParseable /\ ens.desiredPort = 8080 /\ ens.err = ""
    /\ CurrentPort(ens.before) = 8080
    /\ ens.cfg.Port = 8080 /\ ens.cfg.BackupPath = ""
    /\ file[ens.dir] = ens.before

\* C39: the port of every Config EnsureCaddyfile or EnsureCaddyfileAutoPort
\* returns without an error is not in usedPorts, and IsPortFree reports it free.
C39_ReturnedPortFreeAndUnclaimed ==
    (ens.n > 0 /\ ens.err = "") =>
        /\ ens.cfg.Port \notin ens.usedPorts
        /\ IsPortFree(ens.cfg.Port)

\* A call has rewritten an existing Caddyfile to its desired port while
\* usedPorts was not empty.
C39_Witness ==
    /\ ens.n > 0 /\ ens.err = "" /\ ens.before.exists
    /\ ens.desiredPort > 0 /\ ens.cfg.Port = ens.desiredPort
    /\ ens.cfg.BackupPath # "" /\ ens.usedPorts # {}
    /\ Binds(file[ens.dir], ens.desiredPort)

\* The field ends in a colon and a port number.
EndsInPort(field) ==
    \E k \in 1..(Len(field) - 1) :
        /\ Char(field, k) = ":"
        /\ \A j \in (k + 1)..Len(field) : IsDigit(Char(field, j))

\* Some field of text is an address with a port.
NamesPort(text) == \E k \in 1..Len(Fields(text)) : EndsInPort(Fields(text)[k])

\* Line i is no blank and no comment line, and declares an address with a port
\* before an opening brace on the same line or standing alone on the next line.
Declares(lines, i) ==
    /\ TrimSpace(lines[i]) # ""
    /\ ~HasPrefix(TrimSpace(lines[i]), "#") /\ ~HasPrefix(TrimSpace(lines[i]), "//")
    /\ IF Index(lines[i], "{") > 0
       THEN NamesPort(SubSeq(lines[i], 1, Index(lines[i], "{") - 1))
       ELSE /\ i < Len(lines) /\ TrimSpace(lines[i + 1]) = "{"
            /\ NamesPort(lines[i])

\* The call was made on an existing file none of whose lines declares a port,
\* and none of its system calls has failed.
CalledOnUndeclared ==
    /\ ens.n > 0 /\ ens.io = "none" /\ ens.before.exists
    /\ \A i \in 1..Len(Split(ens.before.data, "\n")) :
          ~Declares(Split(ens.before.data, "\n"), i)

\* C31, as stated: a call on an existing file without a port declaration fails
\* with the parse error and leaves the file and the backup as they were,
\* whatever the desired port.
C31_NoDeclarationParseError ==
    CalledOnUndeclared =>
        /\ ens.err = ErrNoPortDefinition
        /\ file[ens.dir] = ens.before /\ bak[ens.dir] = ens.bakBefore

\* C31, amended: a call on an existing file without a port declaration fails
\* and leaves the file and the backup as they were; the error is the parse
\* error unless a desired port was given that is invalid or unavailable, which
\* is then the error.
C31_NoDeclarationFails ==
    CalledOnUndeclared =>
        /\ ens.err = IF ens.desiredPort > 0 /\ ~Available(ens.desiredPort, ens.usedPorts)
                     THEN IF ens.desiredPort > 65535 THEN ErrInvalidPort
                          ELSE ErrDesiredPortUnavailable
                     ELSE ErrNoPortDefinition
        /\ file[ens.dir] = ens.before /\ bak[ens.dir] = ens.bakBefore

\* A call with the desired port 9000, free and unclaimed, has failed with the
\* parse error on a file whose port stands two lines above the brace.
C31_Witness ==
    /\ CalledOnUndeclared /\ ens.desiredPort = 9000
    /\ ens.before.data = ":8080\n\n{\n}"
    /\ ens.err = ErrNoPortDefinition
    /\ file[ens.dir] = ens.before /\ ~bak[ens.dir].exists

\* The call had to pick a port by itself: none was desired, and there was no
\* Caddyfile, or one whose declared port is listened on or held by usedPorts.
AllocatesPort ==
    /\ ens.n > 0 /\ ens.desiredPort = 0 /\ ens.io # "read"
    /\ \/ ~ens.before.exists
       \/ /\ FindAddressLine(Split(ens.before.data, "\n"), 1).foundAddress
          /\ ~Available(CurrentPort(ens.before), ens.usedPorts)

\* C32: a call that picks the port itself returns, when it succeeds, the lowest
\* port of 8080..9000 that nothing listens on and usedPorts does not hold, and
\* it succeeds if there is such a port and no system call fails; if there is
\* none it fails, with the range error, and the Caddyfile and the backup are as
\* they were.
C32_LowestFreeUnclaimedPort ==
    AllocatesPort =>
        IF \E q \in defaultStartPort..defaultEndPort : Available(q, ens.usedPorts)
        THEN /\ ens.io = "none" => ens.err = ""
             /\ ens.err = "" =>
                   /\ ens.cfg.Port \in defaultStartPort..defaultEndPort
                   /\ Available(ens.cfg.Port, ens.usedPorts)
                   /\ \A q \in defaultStartPort..(ens.cfg.Port - 1) :
                         ~Available(q, ens.usedPorts)
                   /\ Binds(file[ens.dir], ens.cfg.Port)
        ELSE /\ ens.err = ErrNoFreePort
             /\ file[ens.dir] = ens.before /\ bak[ens.dir] = ens.bakBefore

\* A call has created a Caddyfile for 8081, the first port past 8080, which a
\* foreign listener holds.
C32_Witness ==
    /\ AllocatesPort /\ ~ens.before.exists /\ ens.err = ""
    /\ 8080 \in osBusy
    /\ ens.cfg.Port = 8081 /\ ens.cfg.IsNew
    /\ Binds(file[ens.dir], 8081)

-----------------------------------------------------------------------------
(* Properties of the three entry points together (SpecOps).                *)

\* C15: EnsureCaddyfileAutoPort returns what its first EnsureCaddyfile call
\* returns when that succeeds or fails with another error than
\* ErrDesiredPortUnavailable, having made one call; on ErrDesiredPortUnavailable
\* it makes one more call, without a desired port, and returns the outcome of
\* that; it never returns ErrDesiredPortUnavailable.
C15_AutoPortFallback ==
    [][(ens'.n = ens.n + 1 /\ ens'.op = "EnsureCaddyfileAutoPort")
          => \E r \in {EnsureCaddyfile(ens'.dir, ens'.usedPorts, ens'.desiredPort, ens'.io)},
                q \in {EnsureCaddyfile(ens'.dir, ens'.usedPorts, 0, ens'.io)} :
                /\ ens'.first = r.err
                /\ ens'.err # ErrDesiredPortUnavailable
                /\ IF r.err = ErrDesiredPortUnavailable
                   THEN /\ ens'.calls = 2
                        /\ ens'.err = q.err /\ ens'.cfg = q.cfg
                        /\ file'[ens'.dir] = q.file /\ bak'[ens'.dir] = q.bak
                   ELSE /\ ens'.calls = 1
                        /\ ens'.err = r.err /\ ens'.cfg = r.cfg
                        /\ file'[ens'.dir] = r.file /\ bak'[ens'.dir] = r.bak]_vars

\* A call whose desired port was claimed has fallen back to another port and
\* rewritten the Caddyfile.
C15_Witness ==
    /\ ens.op = "EnsureCaddyfileAutoPort"
    /\ ens.first = ErrDesiredPortUnavailable /\ ens.calls = 2
    /\ ens.err = "" /\ ens.desiredPort > 0 /\ ens.cfg.Port # ens.desiredPort
    /\ ens.cfg.BackupPath # ""

\* C16: a RemoveCaddyfile call whose removals work returns no error and leaves
\* neither the Caddyfile nor the backup, whichever of them was there; a call
\* that follows a successful one returns no error and changes nothing.
C16_RemoveIdempotent ==
    /\ []((ens.op = "RemoveCaddyfile" /\ ens.io = "none")
             => (ens.err = "" /\ ~file[ens.dir].exists /\ ~bak[ens.dir].exists))
    /\ [][(/\ ens.op = "RemoveCaddyfile" /\ ens.err = ""
            /\ ens'.n = ens.n + 1 /\ ens'.op = "RemoveCaddyfile")
              => (ens'.err = "" /\ file' = file /\ bak' = bak)]_vars

\* The second of two calls has succeeded on a directory the first had emptied of
\* a Caddyfile and its backup.
C16_Witness ==
    /\ ens.n = 2 /\ ens.op = "RemoveCaddyfile" /\ ens.err = ""
    /\ ~ens.before.exists /\ ~ens.bakBefore.exists
    /\ ~file[ens.dir].exists /\ ~bak[ens.dir].exists

-----------------------------------------------------------------------------
(* Properties of the port allocator (SpecProbe).                           *)

\* C17, as stated: IsPortFree returns true exactly when the two IPv4 binds
\* succeed and each IPv6 bind succeeds or fails with an address-family or
\* protocol unsupported error.
C17_FreeIffBindsOrFamilyUnsupported ==
    probe.op = "IsPortFree" =>
        (probe.free <=>
            \A k \in 1..Len(Checks) :
                \/ canListen(k, probe.port) = "ok"
                \/ /\ Checks[k].network = "tcp6"
                   /\ canListen(k, probe.port) \in {"EAFNOSUPPORT", "EPROTONOSUPPORT"})

\* C17, amended: IsPortFree returns true exactly when the two IPv4 binds succeed
\* and each IPv6 bind succeeds or fails with address family not supported,
\* protocol not supported or address not available.
C17_FreeIffBindsOrAddressUnavailable ==
    probe.op = "IsPortFree" =>
        (probe.free <=>
            \A k \in 1..Len(Checks) :
                \/ canListen(k, probe.port) = "ok"
                \/ /\ Checks[k].network = "tcp6"
                   /\ canListen(k, probe.port)
                          \in {"EAFNOSUPPORT", "EPROTONOSUPPORT", "EADDRNOTAVAIL"})

\* A port has been found free on a host whose IPv6 wildcard bind lacks the
\* address family and whose IPv6 loopback bind works.
C17_Witness ==
    /\ probe.op = "IsPortFree" /\ probe.free
    /\ canListen(3, probe.port) = "EAFNOSUPPORT"
    /\ canListen(4, probe.port) = "ok"

\* C18: FindFreePort(start, end) returns the lowest port of start..end that
\* IsPortFree finds free, and fails with the range error, returning 0, when the
\* range has no free port or is empty.
C18_LowestFreePort ==
    probe.op = "FindFreePort" =>
        IF \E p \in probe.start..probe.end : IsPortFree(p)
        THEN /\ probe.err = ""
             /\ probe.port \in probe.start..probe.end
             /\ IsPortFree(probe.port)
             /\ \A q \in probe.start..(probe.port - 1) : ~IsPortFree(q)
        ELSE probe.err = ErrRangeExhausted /\ probe.port = 0

\* A scan has passed a port that is held and returned the next.
C18_Witness ==
    /\ probe.op = "FindFreePort" /\ probe.err = ""
    /\ probe.port > probe.start /\ probe.start \in osBusy

-----------------------------------------------------------------------------
(* Properties of the LogBuffer (SpecLog).                                  *)

\* C19, as stated: after the chunks "a\nb\nc" and "d" on an empty buffer that
\* holds four lines or more, Tail of all entries is "a", "b", "c", "d".
C19_TailABCD ==
    (fed = <<"a\nb\nc", "d">> /\ logs[SampleDir].max >= 4)
        => TailLines(logs[SampleDir], 0) = <<"a", "b", "c", "d">>

\* C19, amended: after the chunks "a\nb\nc" and "d" on an empty buffer that
\* holds four lines or more, Tail of all entries is "a", "b", "cd": the chunk "d"
\* goes on with the line "c" left open.
C19_TailABThenCD ==
    (fed = <<"a\nb\nc", "d">> /\ logs[SampleDir].max >= 4)
        => TailLines(logs[SampleDir], 0) = <<"a", "b", "cd">>

\* The two chunks have been written to a buffer with the default maximum, which
\* holds two lines and the partial line "cd".
C19_Witness ==
    /\ fed = <<"a\nb\nc", "d">>
    /\ logs[SampleDir].max = defaultLogMaxLines
    /\ logs[SampleDir].lines = <<"a", "b">>
    /\ logs[SampleDir].partial = "cd"

\* The chunks written so far, line ends normalised, one after another.
RECURSIVE FedText(_)
FedText(chunks) ==
    IF Len(chunks) = 0 THEN ""
    ELSE ReplaceCRLF(chunks[1]) \o FedText(SubSeq(chunks, 2, Len(chunks)))

\* The complete lines written so far, in order of arrival: all parts of the text
\* but the last, which is the line still open.
CompleteLines(chunks) ==
    SubSeq(Split(FedText(chunks), "\n"), 1, Len(Split(FedText(chunks), "\n")) - 1)

\* C20: after any writes the buffer holds at most max lines, they are the last
\* max complete lines written, in order of arrival, and Tail of all entries is
\* those lines and then the partial line if it is not empty.
C20_LastMaxCompleteLines ==
    /\ Len(logs[SampleDir].lines) <= logs[SampleDir].max
    /\ logs[SampleDir].lines = KeepLast(CompleteLines(fed), logs[SampleDir].max)
    /\ TailLines(logs[SampleDir], 0)
           = logs[SampleDir].lines
               \o (IF logs[SampleDir].partial # "" THEN <<logs[SampleDir].partial>> ELSE <<>>)

\* C40: two chunks written one after the other to a new buffer leave the lines
\* and the partial line that the two chunks written as one chunk leave, a
\* carriage return at the end of the first and a line feed at the start of the
\* second included.
WrittenWhole(max, chunks) == Write(NewLogBuffer(max), chunks[1] \o chunks[2])
C40_ChunkingIndependent ==
    Len(fed) = 2 =>
        /\ logs[SampleDir].lines = WrittenWhole(logs[SampleDir].max, fed).lines
        /\ logs[SampleDir].partial = WrittenWhole(logs[SampleDir].max, fed).partial

\* The last n entries of seq; all of them when n <= 0 or n >= Len(seq).
LastEntries(seq, n) ==
    IF n <= 0 \/ n >= Len(seq) THEN seq
    ELSE [i \in 1..n |-> seq[Len(seq) - n + i]]

\* The complete lines of buffer b followed by its partial line if it is not empty.
LinesThenPartial(b) == b.lines \o (IF b.partial = "" THEN <<>> ELSE <<b.partial>>)

\* C21: a Tail(n) or TailLogs(dir, n) call returns the last n entries of the
\* lines followed by the non-empty partial line, all of them when n <= 0 or n
\* is not below their number, and leaves the buffer as it was; a call that
\* follows another with the same n and no Write in between returns the same.
C21_TailLastEntriesNoChange ==
    [][tail'.k # tail.k =>
          /\ logs' = logs
          /\ tail'.lines = LastEntries(LinesThenPartial(logs[SampleDir]), tail'.n)
          /\ tail'.text = Join(tail'.lines, "\n")
          /\ (tail.k > 0 /\ tail.n = tail'.n /\ tail.at = tail'.at)
                => (tail'.lines = tail.lines /\ tail'.text = tail.text)]_vars

\* A second Tail(1) right after a first has returned the partial line alone of a
\* buffer that holds complete lines as well.
C21_Witness ==
    /\ tail.k = 2 /\ tail.n = 1 /\ tail.at = Len(fed)
    /\ logs[SampleDir].partial # ""
    /\ Len(logs[SampleDir].lines) >= 1
    /\ tail.lines = <<logs[SampleDir].partial>>

-----------------------------------------------------------------------------
(* Properties of the supervisor, continued (Spec).                         *)

\* The order of a monitor goroutine's steps.
WatcherSteps ==
    { <<"none", "wait">>, <<"wait", "recordExit">>, <<"recordExit", "cleanup">>,
      <<"cleanup", "done">> }

\* C22: every successful Start launches one watcher, for the subprocess it
\* spawned, and no watcher starts otherwise; a watcher writes the exit record,
\* then cleans up and removes the entry, in that order; an entry is removed only
\* by the last step of the watcher of its own subprocess, after that subprocess
\* has terminated.
C22_WatcherOrderAndRemoval ==
    [][/\ \A p \in Pids :
            watcher'[p] # watcher[p] =>
                /\ <<watcher[p], watcher'[p]>> \in WatcherSteps
                /\ watcher[p] = "none" <=>
                      (ret'.op = "Start" /\ ret'.err = "" /\ ret'.pid = p /\ ret' # ret)
                /\ watcher[p] = "recordExit" =>
                      (exitInfo'[cmd[p].dir].When = p /\ processes' = processes)
                /\ watcher[p] \in {"wait", "recordExit"} =>
                      processes'[cmd[p].dir] = processes[cmd[p].dir]
       /\ (ret'.op = "Start" /\ ret'.err = "" /\ ret' # ret) =>
              (watcher[ret'.pid] = "none" /\ watcher'[ret'.pid] = "wait")
       /\ \A d \in Dirs :
            (processes[d] # NoProc /\ processes'[d] = NoProc) =>
                /\ cmd[processes[d].Cmd].state = "exited"
                /\ watcher[processes[d].Cmd] = "cleanup"
                /\ watcher'[processes[d].Cmd] = "done"]_vars

\* After a Stop that signalled it, the watcher of a subprocess has recorded the
\* exit and removed the entry.
C22_Witness ==
    /\ ret.op = "Stop" /\ ret.err = "" /\ ret.pid = 1
    /\ watcher[1] = "done"
    /\ exitInfo[RunDir].When = 1
    /\ processes[RunDir] = NoProc

\* The Caddyfile and its backup once the cleanup for Config cfg has worked.
CleanedUp(cfg, f, b) ==
    IF cfg.IsNew THEN <<Absent, b>>
    ELSE IF cfg.BackupPath # "" THEN <<b, Absent>>
    ELSE <<f, b>>

\* Watcher p makes its cleanup step.
CleanupStep(p) == watcher[p] = "cleanup" /\ watcher'[p] = "done"

\* C23: the watcher of every subprocess that has exited makes one cleanup step,
\* on the entry of its own subprocess, and none after it; the step deletes a
\* freshly created file, or puts the backup's content back and removes the
\* backup, or leaves a reused file alone, and where the delete or the restore
\* fails it leaves both files as they are; it returns nothing to any caller and
\* changes no exit record; the files change in no step other than an
\* EnsureCaddyfile call and a cleanup step.
C23_CleanupOncePerExit ==
    [][/\ \A p \in Pids :
            /\ watcher[p] = "done" => watcher'[p] = "done"
            /\ CleanupStep(p) =>
                  /\ cmd[p].state = "exited"
                  /\ processes[cmd[p].dir] # NoProc
                  /\ processes[cmd[p].dir].Cmd = p
                  /\ <<file'[cmd[p].dir], bak'[cmd[p].dir]>>
                        \in { CleanedUp(processes[cmd[p].dir].CaddyConfig,
                                        file[cmd[p].dir], bak[cmd[p].dir]),
                              <<file[cmd[p].dir], bak[cmd[p].dir]>> }
                  /\ \A d \in Dirs \ {cmd[p].dir} : file'[d] = file[d] /\ bak'[d] = bak[d]
                  /\ ret' = ret /\ pc' = pc /\ exitInfo' = exitInfo
       /\ (file' # file \/ bak' # bak) =>
              \/ \E p \in Pids : CleanupStep(p)
              \/ \E t \in Threads : pc[t] = "run_ensure" /\ pc'[t] # pc[t]]_vars

\* The one run request made has created a Caddyfile, its subprocess has exited,
\* the delete of the cleanup has failed and the entry is gone: the file stays.
C23_Witness ==
    /\ requests = 1
    /\ watcher[1] = "done"
    /\ origin[1] = Absent
    /\ processes[RunDir] = NoProc
    /\ file[RunDir].exists

\* C25: the pending-stop flag of a path is cleared only by the watcher's write
\* of the exit record for that path or by the roll-back of a Stop of that path
\* whose Kill failed.
C25_StopFlagClearedOnlyByExitOrFailedKill ==
    [][\A d \in Dirs :
          (stopReq[d] /\ ~stopReq'[d]) =>
              \/ \E p \in Pids :
                    watcher[p] = "recordExit" /\ watcher'[p] = "cleanup" /\ cmd[p].dir = d
              \/ \E t \in Threads :
                    pc[t] = "stop_rollback" /\ pc'[t] = "idle" /\ arg[t].dir = d]_vars

\* A Start call returns in this step without an error.
StartSucceeds == ret' # ret /\ ret'.op = "Start" /\ ret'.err = ""

\* C26: when Start(dir) returns without an error, LastExit(dir) has no record
\* and the pending-stop flag of dir is not set, whatever they were before.
C26_StartClearsStaleExitState ==
    [][StartSucceeds =>
          /\ exitInfo'[ret'.dir] = NoExit
          /\ ~stopReq'[ret'.dir]
          /\ processes'[ret'.dir].Cmd = ret'.pid]_vars

\* A second run of the path has just started, after two run requests and no
\* other call: the exit record of the first run is gone.
C26_Witness ==
    /\ requests = 2
    /\ ret.op = "Start" /\ ret.err = "" /\ ret.pid = 2
    /\ watcher[1] = "done"
    /\ ~LastExit(RunDir).ok
    /\ ~stopReq[RunDir]

\* C27: a Start whose spawn fails returns the error and leaves the table, the
\* subprocesses and the watchers as they were, the path without an entry; an
\* entry appears and a watcher starts only in a step in which a Start returns
\* without an error, for the subprocess that Start spawned.
C27_FailedSpawnRecordsNothing ==
    [][/\ (ret' # ret /\ ret'.op = "Start" /\ ret'.err = ErrSpawn) =>
              /\ processes' = processes
              /\ processes'[ret'.dir] = NoProc
              /\ watcher' = watcher /\ cmd' = cmd /\ nextPid' = nextPid
       /\ \A d \in Dirs :
            (processes'[d] # processes[d] /\ processes'[d] # NoProc) =>
                /\ StartSucceeds /\ ret'.dir = d
                /\ processes'[d].Cmd = ret'.pid
                /\ cmd'[ret'.pid].state = "running"
                /\ watcher'[ret'.pid] = "wait"
       /\ \A p \in Pids :
            (watcher[p] = "none" /\ watcher'[p] # "none") =>
                (StartSucceeds /\ ret'.pid = p)]_vars

\* A Start has returned the spawn error: nothing has been spawned and the path
\* has no entry.
C27_Witness ==
    /\ ret.op = "Start" /\ ret.err = ErrSpawn
    /\ nextPid = 1
    /\ processes[ret.dir] = NoProc
    /\ \A p \in Pids : watcher[p] = "none"

\* The paths that have an entry in m.processes.
HasEntry(d) == processes[d] # NoProc

\* C28 (SpecPorts): in every state UsedPorts() is the set of the ports of the
\* entries in the table, List() is the set of those entries, and Get(dir) finds
\* the entry of dir exactly when dir has one; the UsedPorts() call of a run
\* request returns that set and changes nothing of the Manager.
C28_QueriesReflectTable ==
    /\ [](/\ \A port \in defaultStartPort..(defaultStartPort + MaxProcs) :
                port \in UsedPorts <=>
                    \E d \in Dirs : HasEntry(d) /\ processes[d].Port = port
          /\ \A q \in UsedPorts : \E d \in Dirs : HasEntry(d) /\ processes[d].Port = q
          /\ \A d \in Dirs : HasEntry(d) => processes[d] \in List
          /\ \A e \in List : \E d \in Dirs : HasEntry(d) /\ processes[d] = e
          /\ \A d \in Dirs :
                /\ Get(d).ok <=> HasEntry(d)
                /\ Get(d).ok => Get(d).p = processes[d])
    /\ [][\A t \in Threads :
            (pc[t] = "idle" /\ pc'[t] = "run_ensure") =>
                /\ \A q \in arg'[t].used :
                      \E d \in Dirs : HasEntry(d) /\ processes[d].Port = q
                /\ \A d \in Dirs : HasEntry(d) => processes[d].Port \in arg'[t].used
                /\ UNCHANGED <<processes, logs, exitInfo, stopReq, cmd, watcher, file, bak>>]_vars

\* A run request has sampled the port of the other project's entry, whose
\* subprocess has already terminated.
C28_Witness ==
    \E t \in Threads, d \in Dirs :
        /\ pc[t] = "run_ensure"
        /\ HasEntry(d)
        /\ cmd[processes[d].Cmd].state = "exited"
        /\ arg[t].used = {processes[d].Port}
        /\ UsedPorts = arg[t].used

-----------------------------------------------------------------------------
(* Properties of the supervisor's lock (SpecLock).                         *)

\* C24: no caller holds the lock while it stands before the spawn of Start or
\* before the Kill of Stop, and the lock is held by no one else between steps:
\* a watcher blocked in Wait does not hold it.
C24_LockNotHeldAcrossSpawnKillWait ==
    /\ mu \in Threads \cup {""}
    /\ \A t \in Threads : pc[t] \in {"start_spawn", "stop_kill"} => mu # t

\* C34: a Start rejected because the path has an entry leaves the entry, the
\* exit record, the log buffer and the stop flag of every path as they were; in
\* particular the flag a Stop in flight has set stays set.
StartRejected == ret' # ret /\ ret'.op = "Start" /\ ret'.err = ErrAlreadyRunning
C34_RejectedStartChangesNothing ==
    [][StartRejected => UNCHANGED <<processes, exitInfo, logs, stopReq, cmd, watcher>>]_vars

\* A Start has just been rejected while a Stop of the path had set the flag and
\* not yet delivered its signal; the flag is still set.
C34_Witness ==
    /\ ret.op = "Start" /\ ret.err = ErrAlreadyRunning
    /\ stopReq[ret.dir]
    /\ \E u \in Threads : pc[u] = "stop_kill" /\ arg[u].dir = ret.dir
    /\ processes[ret.dir] # NoProc

\* C35: under SpecLockFair every call of Start and Stop returns, the lock is
\* released whenever it is taken, and the monitor of every subprocess that has
\* exited finishes its cleanup.
InSupervisor(t) == pc[t] \in {"start", "start_spawn", "stop_kill", "stop_rollback"}
C35_CallsReturnAndCleanupCompletes ==
    /\ \A t \in Threads : InSupervisor(t) ~> (pc[t] = "idle")
    /\ (mu # "") ~> (mu = "")
    /\ \A p \in Pids : (cmd[p].state = "exited") ~> (watcher[p] = "done")

\* One Start holds the lock before its spawn while a Stop whose Kill has failed
\* waits for the lock to take its flag back.
C35_Witness ==
    /\ mu # "" /\ pc[mu] = "start_spawn"
    /\ \E u \in Threads : u # mu /\ pc[u] = "stop_rollback"
    /\ \E p \in Pids : watcher[p] = "done"

\* C36: a stop flag is set only for a path that has an entry, and a Stop that
\* looked up an earlier subprocess of the path does not change the flag once
\* the path has an entry for a later one.
StaleStopReturns(d) ==
    /\ ret' # ret /\ ret'.op = "Stop" /\ ret'.dir = d
    /\ Running(d) /\ ret'.pid # 0 /\ processes[d].Cmd # ret'.pid
C36_StopFlagOfActiveEntryOnly ==
    [][\A d \in Dirs :
          /\ stopReq'[d] => Running(d)'
          /\ StaleStopReturns(d) => stopReq'[d] = stopReq[d]]_vars

\* C37: the provisioner step of a run request for a path that has an entry
\* leaves the Caddyfile and its backup as they were, and while an entry with a
\* backup path is in the table the backup holds what the file held before the
\* entry's subprocess was provisioned.
EnsuresActive(t) ==
    pc[t] = "run_ensure" /\ pc'[t] # "run_ensure" /\ Running(arg[t].dir)
BackupIsOrigin(d) ==
    (Running(d) /\ processes[d].CaddyConfig.BackupPath # "") =>
        bak[d] = origin[processes[d].Cmd]
C37_RunOnActiveProjectKeepsFiles ==
    [][/\ \A t \in Threads : EnsuresActive(t) => UNCHANGED <<file, bak>>
       /\ \A d \in Dirs : BackupIsOrigin(d)']_vars

\* C38: whenever the project has no entry, no call is in progress and no
\* monitor is at work, its Caddyfile is what it was at the start (absent, or the
\* same bytes) and there is no backup file.  A state on its own does not tell
\* which of the files of Init the project started with, so the file is held
\* against both: the claim allows no other.
Quiet(d) ==
    /\ ~Running(d)
    /\ \A t \in Threads : pc[t] = "idle"
    /\ \A p \in Pids : watcher[p] \in {"none", "done"}
C38_QuietProjectHasOriginalFile ==
    Quiet(RunDir) =>
        /\ file[RunDir] \in {Absent, Present(":8080 {\n}")}
        /\ bak[RunDir] = Absent

-----------------------------------------------------------------------------
(* Properties of the log buffers of the supervisor (SpecOutput).           *)

\* C33: the buffer of a path changes only when a subprocess of the path writes
\* to it, when ClearLogs removes it, and when a Start finds none and makes an
\* empty one; a Start that finds a buffer attaches it with its lines, so that the
\* lines of an earlier run stay through exit, cleanup and restart; right after
\* ClearLogs(dir), TailLogs(dir) returns nothing.
C33_BufferPersistsUntilCleared ==
    [][\A d \in Dirs :
          /\ (StartSucceeds /\ ret'.dir = d /\ logs[d] # NoBuf) => logs'[d] = logs[d]
          /\ (ret' # ret /\ ret'.op = "ClearLogs" /\ ret'.dir = d) =>
                (logs'[d] = NoBuf /\ TailLogs(d, 0)' = "")
          /\ logs'[d] # logs[d] =>
                \/ ret' # ret /\ ret'.op = "ClearLogs" /\ ret'.dir = d
                \/ /\ ret' # ret /\ ret'.op = "Start" /\ ret'.dir = d
                   /\ logs[d] = NoBuf /\ logs'[d] = NewLogBuffer(defaultLogMaxLines)
                \/ /\ Len(fed') = Len(fed) + 1
                   /\ logs[d] # NoBuf
                   /\ logs'[d] = Write(logs[d], fed'[Len(fed')])]_vars

\* The second run of the path has started and written, and TailLogs still
\* returns the line the first run wrote.
C33_Witness ==
    /\ processes[RunDir] # NoProc /\ processes[RunDir].Cmd = 2
    /\ watcher[1] = "done"
    /\ fed = <<"1\n", "2\n">>
    /\ \E i \in 1..Len(logs[RunDir].lines) : logs[RunDir].lines[i] = "1"
    /\ \E i \in 1..Len(logs[RunDir].lines) : logs[RunDir].lines[i] = "2"
    /\ TailLogs(RunDir, 0) # ""


=============================================================================
